---- MODULE Spec2Model ----
(***************************************************************************)
(* Model of the Textual chat server: the connection lifecycle              *)
(* (cmd/server/main.go), the client registry, the broadcast fan-out, the   *)
(* message router and its domain handlers (internal/server/handlers), and  *)
(* the part of the store (internal/server/database/postgres.go) they use.  *)
(***************************************************************************)
EXTENDS Integers, Sequences, FiniteSets, TLC

\* ------------------------------------------------------------------ bounds
\* Capacity of a Session's mailbox (Client.Send); 256 in the code, scaled down.
MailboxCap == 2
\* Capacity of the shared broadcast queue; 100 in the code, scaled down.
BroadcastCap == 1
\* Number of environment events (inbound frames, ping ticks) in one behaviour.
MaxEvents == 2
\* Number of frames the clients send in the end-to-end chat scenario.
ChatEvents == 3
\* Largest number of member ids in a group_create payload.
MaxMemberIDs == 2
\* Capacity of a subscriber channel of the EventHandler; 100 in the code,
\* scaled down.
SubCap == 1
\* Number of subscriber channels made in one behaviour.
MaxChans == 3
\* Last tick of the clock.
MaxClock == 3
\* Number of messages handed to EventHandler.Broadcast in one behaviour.
MaxEmitted == 3
\* Largest number of notifications stored for one user.
MaxNotifs == 2

Users == {"u1", "u2"}
Conns == {"c1", "c2"}
Groups == {"g1", "g2"}
NoClient == "noclient"
NoUser == "nouser"
None == "-"

\* The order in which the listener's accept loop hands out connections.
ConnOrder == <<"c1", "c2">>

\* The accounts the peers of the connections log in to.
AuthUsers == [c \in Conns |-> IF c = "c1" THEN {"u1"} ELSE Users]

VARIABLES
    clients,      \* Server.clients: userID -> *Client (NoClient when absent)
    mu,           \* Server.mu: "free" or the connection holding the write lock
    broadcast,    \* Server.broadcast: the shared queue
    bpc,          \* position of handleBroadcast: "recv" or "rlock"
    bmsg,         \* the message handleBroadcast has dequeued
    hpc,          \* position of each handleConnection goroutine
    user,         \* the user a connection authenticated as
    mailbox,      \* Client.Send: buffered content
    closed,       \* Client.Send has been closed
    connOpen,     \* Client.Conn (the transport) is open
    closeCalls,   \* number of Client.Close calls made on the Session
    rpc,          \* position of each readPump goroutine
    cur,          \* the frame a readPump has decoded and is handling
    wpc,          \* position of each writePump goroutine
    errChan,      \* number of values buffered in the connection's errChan
    written,      \* what has been written to each transport, in order
    enq,          \* what has been enqueued onto each mailbox, in order
    hlen,         \* number of handshake writes at the head of written
    dbStatus,     \* users.status
    dbMessages,   \* messages table, in insertion order
    dbFriends,    \* friends table: (user_id1, user_id2) -> status
    groupMembers, \* group_members table
    panic,        \* the runtime panic that ended the process, or "none"
    events,       \* environment events still allowed
    shutdown,     \* a global shutdown of the server has been requested
    groupCreator, \* groups.created_by (NoUser: no such row in groups)
    groupAdmins,  \* the rows of group_members whose role is 'admin'
    gcall,        \* the GroupHandler call in progress and its position
    pushFail,     \* the initial-data writes the transport of c does not take
    now,          \* time.Now(), in ticks
    userStatus,   \* StatusMonitor.userStatus (None: no entry)
    lastSeen,     \* StatusMonitor.lastSeen (-1: no entry)
    subscribers,  \* EventHandler.subscribers: userID -> channel (0: no entry)
    made,         \* number of subscriber channels made so far
    chanBuf,      \* content of each subscriber channel
    chanClosed,   \* the subscriber channel has been closed
    emitted,      \* the messages handed to EventHandler.Broadcast, in order
    notifications, \* NotificationHandler.notifications: userID -> list
    pruned,       \* number of notifications CleanOldNotifications removed
    ecall         \* the EventHandler calls that hold h.mu for reading

vars == <<clients, mu, broadcast, bpc, bmsg, hpc, user, mailbox, closed,
          connOpen, closeCalls, rpc, cur, wpc, errChan, written, enq, hlen,
          dbStatus, dbMessages, dbFriends, groupMembers, panic, events,
          shutdown, groupCreator, groupAdmins, gcall, pushFail, now,
          userStatus, lastSeen, subscribers, made, chanBuf, chanClosed,
          emitted, notifications, pruned, ecall>>

\* The state of the StatusMonitor, of the EventHandler and of the
\* NotificationHandler, components the server never constructs, and the
\* clock they read.
presence == <<now, userStatus, lastSeen, subscribers, made, chanBuf,
              chanClosed, emitted, notifications, pruned, ecall>>

\* What no goroutine of the running server reads or writes: the shutdown
\* request, the state only the GroupHandler touches, a handler the server
\* never constructs, the record of the writes the transport refused during
\* the handshake, and the state of the presence components.
aside == <<shutdown, groupCreator, groupAdmins, gcall, pushFail, presence>>

\* The state of the server, of its Sessions and of the store.
chat == <<clients, mu, broadcast, bpc, bmsg, hpc, user, mailbox, closed,
          connOpen, closeCalls, rpc, cur, wpc, errChan, written, enq, hlen,
          dbStatus, dbMessages, dbFriends, groupMembers, panic, events>>

\* The subscriber channels.
Chans == 1..MaxChans

\* ---------------------------------------------------------------- messages
\* protocol.Message as the model's record; rid carries a friend-request id.
Msg(type, from, to, body) ==
    [type |-> type, from |-> from, to |-> to, body |-> body, id |-> 0,
     rid |-> <<>>, friends |-> {}]

NoMsg == Msg("none", None, None, "")
PingMsg == Msg("ping", None, None, "")
PongMsg == Msg("pong", None, None, "")
ErrorMsg(text) == Msg("error", None, None, text)
StatusUpdate(u, status) == Msg("status_update", u, None, status)

\* The goroutines that call EventHandler.Broadcast and NotifyUser.
Readers == {"r1", "r2"}

\* No call of the goroutine is inside the EventHandler.
NoRead == [pc |-> "idle", msg |-> NoMsg, todo |-> {}]


\* Capacity of the per-connection errChan.
ErrChanCap == 2

\* ---------------------------------------------------------------- channels
\* The mailboxes as one value, so that a handler's sends compose: mb is the
\* buffered content, hist the enqueue history, pn a panic raised by a send.
ChanState == [mb |-> mailbox, hist |-> enq, pn |-> "none"]

\* `select { case c.Send <- m: ... default: ... }`: enqueue when there is
\* room, do nothing when full; a send on a closed channel panics.
SendNB(ch, c, m) ==
    IF ch.pn # "none" THEN ch
    ELSE IF closed[c] THEN [ch EXCEPT !.pn = "send on closed channel"]
    ELSE IF Len(ch.mb[c]) < MailboxCap
         THEN [ch EXCEPT !.mb[c] = Append(@, m), !.hist[c] = Append(@, m)]
         ELSE ch

\* Whether the non-blocking send of SendNB takes its send case.
HasRoom(ch, c) == ~closed[c] /\ Len(ch.mb[c]) < MailboxCap

\* Client.Close: close(c.Send) then c.Conn.Close(); closing a closed channel
\* panics before the transport is touched.
ClosePanics(c) == closed[c]

\* ------------------------------------------------------------------- store
\* DB.GetFriends: users joined to u by an accepted friends row.
GetFriends(u) ==
    {v \in Users : dbFriends[<<u, v>>] = "accepted" \/ dbFriends[<<v, u>>] = "accepted"}

\* A membership check that only tests that the group exists.
IsGroupMemberOfAny(u, g) == g \in Groups

\* DB.IsGroupMember
IsGroupMember(u, g) == g \in Groups /\ u \in groupMembers[g]

\* DB.GetGroupMembers
GetGroupMembers(g) == IF g \in Groups THEN groupMembers[g] ELSE {}

\* All orders in which a query without ORDER BY may return the rows of S.
SeqsOf(S) ==
    {s \in [1..Cardinality(S) -> S] : \A x \in S : \E i \in DOMAIN s : s[i] = x}

\* DB.GetPendingFriendRequests: the users with a pending request towards u.
GetPendingFriendRequests(u) == {v \in Users : dbFriends[<<v, u>>] = "pending"}

\* ------------------------------------------------------ friend-request ids
\* time.Now().Unix() and created_at.Unix(), as one token of the id.
Now == "1700000000"

\* A user id as the store issues it (users.id is a UUID): five groups of hex
\* digits joined by '-'; the first group tells the users apart.
UUIDOf(u) == <<u, "-", "0000", "-", "4000", "-", "8000", "-", "000000000000">>

\* fmt.Sprintf("fr-%s-%s-%d", fromID, toID, unix)
RequestID(from, to) ==
    <<"fr", "-">> \o UUIDOf(from) \o <<"-">> \o UUIDOf(to) \o <<"-", Now>>

\* No GroupHandler call in progress; err is what the last call returned, msg
\* the message a HandleGroupMessage call is about to broadcast.
NoCall == [pc |-> "idle", user |-> NoUser, group |-> None, members |-> <<>>,
           err |-> "", msg |-> NoMsg]

\* -------------------------------------------------------------------- init
\* The state after NewServer, with n environment events to come.
InitWith(n) ==
    /\ clients = [u \in Users |-> NoClient]
    /\ mu = "free"
    /\ broadcast = <<>>
    /\ bpc = "recv"
    /\ bmsg = NoMsg
    /\ hpc = [c \in Conns |-> "idle"]
    /\ user = [c \in Conns |-> NoUser]
    /\ mailbox = [c \in Conns |-> <<>>]
    /\ closed = [c \in Conns |-> FALSE]
    /\ connOpen = [c \in Conns |-> FALSE]
    /\ closeCalls = [c \in Conns |-> 0]
    /\ rpc = [c \in Conns |-> "off"]
    /\ cur = [c \in Conns |-> NoMsg]
    /\ wpc = [c \in Conns |-> "off"]
    /\ errChan = [c \in Conns |-> 0]
    /\ written = [c \in Conns |-> <<>>]
    /\ enq = [c \in Conns |-> <<>>]
    /\ hlen = [c \in Conns |-> 0]
    /\ dbStatus = [u \in Users |-> "offline"]
    /\ dbMessages = <<>>
    /\ dbFriends = [p \in Users \X Users |-> "none"]
    /\ groupMembers = [g \in Groups |-> IF g = "g1" THEN {"u1"} ELSE {}]
    /\ groupCreator = [g \in Groups |-> IF g = "g1" THEN "u1" ELSE NoUser]
    /\ groupAdmins = [g \in Groups |-> IF g = "g1" THEN {"u1"} ELSE {}]
    /\ gcall = NoCall
    /\ panic = "none"
    /\ events = n
    /\ shutdown = FALSE
    /\ pushFail = [c \in Conns |-> {}]
    /\ now = 0
    /\ userStatus = [u \in Users |-> None]
    /\ lastSeen = [u \in Users |-> -1]
    /\ subscribers = [u \in Users |-> 0]
    /\ made = 0
    /\ chanBuf = [i \in Chans |-> <<>>]
    /\ chanClosed = [i \in Chans |-> FALSE]
    /\ emitted = <<>>
    /\ notifications = [u \in Users |-> <<>>]
    /\ pruned = 0
    /\ ecall = [r \in Readers |-> NoRead]

Init == InitWith(MaxEvents)

\* A runtime panic in any goroutine ends the whole process: no step is taken
\* after it. No step of the server reads or writes the variables of aside:
\* each of its actions leaves them unchanged.
Running == panic = "none"

\* ------------------------------------------------------ connection handler
\* Server.Start: the accept loop hands each connection to its own goroutine,
\* one connection at a time; c is accepted once the connections before it are.
Accepted(c) ==
    \A i \in DOMAIN ConnOrder :
        ConnOrder[i] = c => \A j \in 1..(i-1) : hpc[ConnOrder[j]] # "idle"

\* sendInitialData with the friend list pushed ahead of the message history.
InitialDataFriendsFirst(u, rows) ==
    <<[Msg("friend_list", None, None, "") EXCEPT !.friends = GetFriends(u)],
      Msg("message_history", None, None, "")>>
    \o [i \in DOMAIN rows |->
          [Msg("friend_request", rows[i], u, "pending")
              EXCEPT !.rid = RequestID(rows[i], u)]]

\* AuthHandler.sendInitialData: message history, friend list, then one
\* friend_request notification per pending request, in the order rows.
InitialData(u, rows) ==
    <<Msg("message_history", None, None, ""),
      [Msg("friend_list", None, None, "") EXCEPT !.friends = GetFriends(u)]>>
    \o [i \in DOMAIN rows |->
          [Msg("friend_request", rows[i], u, "pending")
              EXCEPT !.rid = RequestID(rows[i], u)]]

\* AuthHandler.HandleAuth on an accepted connection, success path up to the
\* online announcement: the store marks the user online, the AuthResponse and
\* the initial data are written straight to the transport.
HandleAuthOK(c, u) ==
    /\ Running
    /\ UNCHANGED aside
    /\ hpc[c] = "idle"
    /\ Accepted(c)
    /\ \E rows \in SeqsOf(GetPendingFriendRequests(u)) :
          /\ written' = [written EXCEPT ![c] =
                            <<Msg("auth_response", u, None, "success")>>
                            \o InitialData(u, rows)]
          /\ hlen' = [hlen EXCEPT ![c] = 3 + Len(rows)]
    /\ user' = [user EXCEPT ![c] = u]
    /\ connOpen' = [connOpen EXCEPT ![c] = TRUE]
    /\ dbStatus' = [dbStatus EXCEPT ![u] = "online"]
    /\ hpc' = [hpc EXCEPT ![c] = "announce"]
    /\ UNCHANGED <<clients, mu, broadcast, bpc, bmsg, mailbox, closed,
                   closeCalls, rpc, cur, wpc, errChan, enq, dbMessages,
                   dbFriends, groupMembers, panic, events>>

\* The friend_request notifications of sendInitialData's loop from row i on:
\* a failed write is logged and the loop goes on with the next row. The
\* write of row i is push number 2 + i.
RECURSIVE RequestPushes(_, _, _, _)
RequestPushes(u, rows, i, fails) ==
    IF i > Len(rows) THEN <<>>
    ELSE (IF 2 + i \in fails THEN <<>>
          ELSE <<[Msg("friend_request", rows[i], u, "pending")
                     EXCEPT !.rid = RequestID(rows[i], u)]>>)
         \o RequestPushes(u, rows, i + 1, fails)

\* AuthHandler.sendInitialData when the transport does not take the writes
\* numbered in fails (1 the message history, 2 the friend list, 2 + i the
\* i-th pending request): what reaches the transport. A failed write of the
\* history or of the friend list returns from sendInitialData at once.
InitialPushes(u, rows, fails) ==
    IF 1 \in fails THEN <<>>
    ELSE IF 2 \in fails THEN <<Msg("message_history", None, None, "")>>
    ELSE <<Msg("message_history", None, None, ""),
           [Msg("friend_list", None, None, "") EXCEPT !.friends = GetFriends(u)]>>
         \o RequestPushes(u, rows, 1, fails)

\* AuthHandler.HandleAuth, success path with writes of the initial data that
\* fail: the AuthResponse is written, the store marks the user online, the
\* error of sendInitialData is logged and the handshake goes on to the online
\* announcement.
HandleAuthPartial(c, u) ==
    /\ Running
    /\ UNCHANGED <<shutdown, groupCreator, groupAdmins, gcall, presence>>
    /\ hpc[c] = "idle"
    /\ Accepted(c)
    /\ \E rows \in SeqsOf(GetPendingFriendRequests(u)) :
          \E fails \in (SUBSET (1..(2 + Len(rows)))) \ {{}} :
              /\ written' = [written EXCEPT ![c] =
                                <<Msg("auth_response", u, None, "success")>>
                                \o InitialPushes(u, rows, fails)]
              /\ hlen' = [hlen EXCEPT ![c] =
                             1 + Len(InitialPushes(u, rows, fails))]
              /\ pushFail' = [pushFail EXCEPT ![c] = fails]
    /\ user' = [user EXCEPT ![c] = u]
    /\ connOpen' = [connOpen EXCEPT ![c] = TRUE]
    /\ dbStatus' = [dbStatus EXCEPT ![u] = "online"]
    /\ hpc' = [hpc EXCEPT ![c] = "announce"]
    /\ UNCHANGED <<clients, mu, broadcast, bpc, bmsg, mailbox, closed,
                   closeCalls, rpc, cur, wpc, errChan, enq, dbMessages,
                   dbFriends, groupMembers, panic, events>>

\* The reasons HandleAuth returns an error: no frame before the read deadline,
\* an undecodable frame, a first message that is not auth, an invalid auth
\* payload, rejected credentials, a failed write of the AuthResponse.
AuthFailures ==
    {"deadline", "undecodable", "not_auth", "bad_payload", "credentials", "write"}

\* A handshake that, like the writes of the initial data, only logs a failed
\* write of the AuthResponse and goes on to register the connection.
HandleAuthLogsWriteError(c, u, why) ==
    /\ Running
    /\ UNCHANGED aside
    /\ hpc[c] = "idle"
    /\ Accepted(c)
    /\ why = "write"
    /\ user' = [user EXCEPT ![c] = u]
    /\ dbStatus' = [dbStatus EXCEPT ![u] = "online"]
    /\ hpc' = [hpc EXCEPT ![c] = "announce"]
    /\ UNCHANGED <<clients, mu, broadcast, bpc, bmsg, mailbox, closed,
                   connOpen, closeCalls, rpc, cur, wpc, errChan, written, enq,
                   hlen, dbMessages, dbFriends, groupMembers, panic, events>>

\* AuthHandler.HandleAuth, failure paths; handleConnection then returns and its
\* deferred conn.Close() runs. Rejected credentials are answered with an error
\* envelope; a failed write of the AuthResponse comes after AuthenticateUser
\* has marked the user online.
HandleAuthFail(c, u, why) ==
    /\ Running
    /\ UNCHANGED aside
    /\ hpc[c] = "idle"
    /\ Accepted(c)
    /\ written' = [written EXCEPT ![c] =
                      IF why = "credentials"
                      THEN <<ErrorMsg("Authentication failed")>> ELSE <<>>]
    /\ hlen' = [hlen EXCEPT ![c] = IF why = "credentials" THEN 1 ELSE 0]
    /\ dbStatus' = IF why = "write" THEN [dbStatus EXCEPT ![u] = "online"]
                   ELSE dbStatus
    /\ hpc' = [hpc EXCEPT ![c] = "done"]
    /\ UNCHANGED <<clients, mu, broadcast, bpc, bmsg, user, mailbox, closed,
                   connOpen, closeCalls, rpc, cur, wpc, errChan, enq,
                   dbMessages, dbFriends, groupMembers, panic, events>>

\* A HandleAuth that returns the user without announcing them.
AnnounceNothing(c) ==
    /\ Running
    /\ UNCHANGED aside
    /\ hpc[c] = "announce"
    /\ hpc' = [hpc EXCEPT ![c] = "register"]
    /\ UNCHANGED <<clients, mu, broadcast, bpc, bmsg, user, mailbox, closed,
                   connOpen, closeCalls, rpc, cur, wpc, errChan, written, enq,
                   hlen, dbStatus, dbMessages, dbFriends, groupMembers, panic,
                   events>>

\* HandleAuth's last statement: h.broadcast <- statusUpdate, a blocking send.
Announce(c) ==
    /\ Running
    /\ UNCHANGED aside
    /\ hpc[c] = "announce"
    /\ Len(broadcast) < BroadcastCap
    /\ broadcast' = Append(broadcast, StatusUpdate(user[c], "online"))
    /\ hpc' = [hpc EXCEPT ![c] = "register"]
    /\ UNCHANGED <<clients, mu, bpc, bmsg, user, mailbox, closed, connOpen,
                   closeCalls, rpc, cur, wpc, errChan, written, enq, hlen,
                   dbStatus, dbMessages, dbFriends, groupMembers, panic, events>>

\* The registry after s.clients[user.ID] = client.
RegisterEntry(reg, u, c) == [reg EXCEPT ![u] = c]

\* handleConnection: NewClient, the registration under s.mu, and the start of
\* the two pumps.
Register(c) ==
    /\ Running
    /\ UNCHANGED aside
    /\ hpc[c] = "register"
    /\ mu = "free"
    /\ clients' = RegisterEntry(clients, user[c], c)
    /\ hpc' = [hpc EXCEPT ![c] = "running"]
    /\ rpc' = [rpc EXCEPT ![c] = "read"]
    /\ wpc' = [wpc EXCEPT ![c] = "run"]
    /\ UNCHANGED <<mu, broadcast, bpc, bmsg, user, mailbox, closed, connOpen,
                   closeCalls, cur, errChan, written, enq, hlen, dbStatus,
                   dbMessages, dbFriends, groupMembers, panic, events>>

\* The guard of the deferred cleanup: `if _, ok := s.clients[user.ID]; ok`.
CleanupGuard(c) == clients[user[c]] # NoClient

\* handleConnection from `err = <-errChan` through its deferred cleanup up to
\* the blocking send inside HandleLogout: under s.mu.Lock() the client is
\* closed, the entry deleted and the user marked offline. When the guard
\* fails the lock is released at once and the outer deferred conn.Close()
\* runs.
Teardown(c) ==
    /\ Running
    /\ UNCHANGED aside
    /\ hpc[c] = "running"
    /\ errChan[c] > 0
    /\ mu = "free"
    /\ errChan' = [errChan EXCEPT ![c] = @ - 1]
    /\ IF CleanupGuard(c)
       THEN /\ closeCalls' = [closeCalls EXCEPT ![c] = @ + 1]
            /\ IF ClosePanics(c)
               THEN /\ panic' = "close of closed channel"
                    /\ UNCHANGED <<clients, mu, hpc, closed, connOpen, dbStatus>>
               ELSE /\ closed' = [closed EXCEPT ![c] = TRUE]
                    /\ connOpen' = [connOpen EXCEPT ![c] = FALSE]
                    /\ clients' = [clients EXCEPT ![user[c]] = NoClient]
                    /\ dbStatus' = [dbStatus EXCEPT ![user[c]] = "offline"]
                    /\ mu' = c
                    /\ hpc' = [hpc EXCEPT ![c] = "logout"]
                    /\ UNCHANGED panic
       ELSE /\ hpc' = [hpc EXCEPT ![c] = "done"]
            /\ connOpen' = [connOpen EXCEPT ![c] = FALSE]
            /\ UNCHANGED <<clients, mu, closed, closeCalls, dbStatus, panic>>
    /\ UNCHANGED <<broadcast, bpc, bmsg, user, mailbox, rpc, cur, wpc, written,
                   enq, hlen, dbMessages, dbFriends, groupMembers, events>>

\* AuthHandler.HandleLogout from its blocking send on, then s.mu.Unlock():
\* the offline status is queued, the entry deleted once more, the lock freed.
Logout(c) ==
    /\ Running
    /\ UNCHANGED aside
    /\ hpc[c] = "logout"
    /\ mu = c
    /\ Len(broadcast) < BroadcastCap
    /\ broadcast' = Append(broadcast, StatusUpdate(user[c], "offline"))
    /\ clients' = [clients EXCEPT ![user[c]] = NoClient]
    /\ mu' = "free"
    /\ hpc' = [hpc EXCEPT ![c] = "done"]
    /\ UNCHANGED <<bpc, bmsg, user, mailbox, closed, connOpen, closeCalls, rpc,
                   cur, wpc, errChan, written, enq, hlen, dbStatus, dbMessages,
                   dbFriends, groupMembers, panic, events>>

\* ------------------------------------------------------------- environment
\* What the peer and the network do to an open transport (a frame sent, a
\* timer tick answered, a hang-up, a malformed frame, a failed write) is an
\* environment event and counts against the budget; on a transport the server
\* has closed, reads and writes fail by themselves. counted tells whether the
\* step is such an event.
EnvEvent(c, counted) ==
    IF counted /\ connOpen[c]
    THEN events > 0 /\ events' = events - 1
    ELSE UNCHANGED events

\* -------------------------------------------------------------- pump exits
\* A pump that returns owes errChan k values: the error (if any) and the nil
\* of its deferred send. It sends as many as the buffer takes and blocks on
\* the next. ErrChanAfter is the buffer's fill after that, ExitPc where the
\* pump then stands.
ErrChanAfter(n, k) == IF n + k <= ErrChanCap THEN n + k ELSE ErrChanCap

ExitPc(n, k) ==
    LET left == k - (ErrChanAfter(n, k) - n)
    IN IF left = 0 THEN "done" ELSE IF left = 1 THEN "sendnil" ELSE "senderr"

\* The number of values a pump at position pc still owes errChan.
Owed(pc) == IF pc = "senderr" THEN 2 ELSE IF pc = "sendnil" THEN 1 ELSE 0

\* -------------------------------------------------------------- write pump
\* A pump that takes the newest buffered message.
NextToWriteNewest(q) == q[Len(q)]

\* What writePump takes from the mailbox: the oldest buffered message.
NextToWrite(q) == Head(q)

\* writePump, case msg := <-client.Send with a message buffered: the message
\* is dequeued and encoded onto the transport; ok tells whether the write
\* succeeded (it cannot on a closed transport). A failed write ends the pump.
WritePumpWrite(c, ok) ==
    /\ Running
    /\ UNCHANGED aside
    /\ wpc[c] = "run"
    /\ mailbox[c] # <<>>
    /\ ok => connOpen[c]
    /\ EnvEvent(c, ~ok)
    /\ mailbox' = [mailbox EXCEPT ![c] = Tail(@)]
    /\ IF ok
       THEN /\ written' = [written EXCEPT ![c] = Append(@, NextToWrite(mailbox[c]))]
            /\ UNCHANGED <<wpc, errChan>>
       ELSE /\ wpc' = [wpc EXCEPT ![c] = ExitPc(errChan[c], 2)]
            /\ errChan' = [errChan EXCEPT ![c] = ErrChanAfter(@, 2)]
            /\ UNCHANGED written
    /\ UNCHANGED <<clients, mu, broadcast, bpc, bmsg, hpc, user, closed,
                   connOpen, closeCalls, rpc, cur, enq, hlen, dbStatus,
                   dbMessages, dbFriends, groupMembers, panic>>

\* writePump, case msg, ok := <-client.Send with ok false: the mailbox is
\* closed and drained.
WritePumpClosed(c) ==
    /\ Running
    /\ UNCHANGED aside
    /\ wpc[c] = "run"
    /\ mailbox[c] = <<>>
    /\ closed[c]
    /\ wpc' = [wpc EXCEPT ![c] = ExitPc(errChan[c], 2)]
    /\ errChan' = [errChan EXCEPT ![c] = ErrChanAfter(@, 2)]
    /\ UNCHANGED <<clients, mu, broadcast, bpc, bmsg, hpc, user, mailbox,
                   closed, connOpen, closeCalls, rpc, cur, written, enq, hlen,
                   dbStatus, dbMessages, dbFriends, groupMembers, panic,
                   events>>

\* writePump, case <-ticker.C: a ping is written to the transport; a failed
\* write ends the pump.
WritePumpTick(c, ok) ==
    /\ Running
    /\ UNCHANGED aside
    /\ wpc[c] = "run"
    /\ ok => connOpen[c]
    /\ EnvEvent(c, TRUE)
    /\ IF ok
       THEN /\ written' = [written EXCEPT ![c] = Append(@, PingMsg)]
            /\ UNCHANGED <<wpc, errChan>>
       ELSE /\ wpc' = [wpc EXCEPT ![c] = ExitPc(errChan[c], 2)]
            /\ errChan' = [errChan EXCEPT ![c] = ErrChanAfter(@, 2)]
            /\ UNCHANGED written
    /\ UNCHANGED <<clients, mu, broadcast, bpc, bmsg, hpc, user, mailbox,
                   closed, connOpen, closeCalls, rpc, cur, enq, hlen,
                   dbStatus, dbMessages, dbFriends, groupMembers, panic>>

\* writePump blocked in a send on errChan, once the buffer has room again.
WritePumpExit(c) ==
    /\ Running
    /\ UNCHANGED aside
    /\ wpc[c] \in {"senderr", "sendnil"}
    /\ errChan[c] < ErrChanCap
    /\ errChan' = [errChan EXCEPT ![c] = ErrChanAfter(@, Owed(wpc[c]))]
    /\ wpc' = [wpc EXCEPT ![c] = ExitPc(errChan[c], Owed(@))]
    /\ UNCHANGED <<clients, mu, broadcast, bpc, bmsg, hpc, user, mailbox,
                   closed, connOpen, closeCalls, rpc, cur, written, enq, hlen,
                   dbStatus, dbMessages, dbFriends, groupMembers, panic,
                   events>>

\* --------------------------------------------------------------- read pump
\* A pump that decodes the next frame while the handler of the previous one
\* has not returned (each message handed to a goroutine of its own).
ReadDecodeAhead(c, f) ==
    /\ Running
    /\ UNCHANGED aside
    /\ rpc[c] \in {"read", "handle"}
    /\ connOpen[c]
    /\ EnvEvent(c, TRUE)
    /\ cur' = [cur EXCEPT ![c] = f]
    /\ rpc' = [rpc EXCEPT ![c] = "handle"]
    /\ UNCHANGED <<clients, mu, broadcast, bpc, bmsg, hpc, user, mailbox,
                   closed, connOpen, closeCalls, wpc, errChan, written, enq,
                   hlen, dbStatus, dbMessages, dbFriends, groupMembers, panic>>

\* readPump: decoder.Decode(&msg) returns the frame f sent by the client.
ReadDecode(c, f) ==
    /\ Running
    /\ UNCHANGED aside
    /\ rpc[c] = "read"
    /\ connOpen[c]
    /\ EnvEvent(c, TRUE)
    /\ cur' = [cur EXCEPT ![c] = f]
    /\ rpc' = [rpc EXCEPT ![c] = "handle"]
    /\ UNCHANGED <<clients, mu, broadcast, bpc, bmsg, hpc, user, mailbox,
                   closed, connOpen, closeCalls, wpc, errChan, written, enq,
                   hlen, dbStatus, dbMessages, dbFriends, groupMembers, panic>>

\* readPump: Decode returns io.EOF (the peer closed cleanly, eof) or another
\* error (a malformed frame, a closed transport); the pump returns, sending
\* the error (not io.EOF) and the deferred nil to errChan.
ReadFail(c, eof) ==
    /\ Running
    /\ UNCHANGED aside
    /\ rpc[c] = "read"
    /\ eof => connOpen[c]
    /\ EnvEvent(c, TRUE)
    /\ LET k == IF eof THEN 1 ELSE 2
       IN /\ rpc' = [rpc EXCEPT ![c] = ExitPc(errChan[c], k)]
          /\ errChan' = [errChan EXCEPT ![c] = ErrChanAfter(@, k)]
    /\ UNCHANGED <<clients, mu, broadcast, bpc, bmsg, hpc, user, mailbox,
                   closed, connOpen, closeCalls, cur, wpc, written, enq, hlen,
                   dbStatus, dbMessages, dbFriends, groupMembers, panic>>

\* readPump blocked in a send on errChan, once the buffer has room again.
ReadPumpExit(c) ==
    /\ Running
    /\ UNCHANGED aside
    /\ rpc[c] \in {"senderr", "sendnil"}
    /\ errChan[c] < ErrChanCap
    /\ errChan' = [errChan EXCEPT ![c] = ErrChanAfter(@, Owed(rpc[c]))]
    /\ rpc' = [rpc EXCEPT ![c] = ExitPc(errChan[c], Owed(@))]
    /\ UNCHANGED <<clients, mu, broadcast, bpc, bmsg, hpc, user, mailbox,
                   closed, connOpen, closeCalls, cur, wpc, written, enq, hlen,
                   dbStatus, dbMessages, dbFriends, groupMembers, panic,
                   events>>

\* ------------------------------------------------------------------ router
\* MessageHandler.HandleMessage: sender, exists := h.clients[senderID].
Sender(c) == clients[user[c]]

\* readPump after HandleMessage returned err ("" for nil): an error is
\* answered with an error envelope on the pump's own client, by a
\* non-blocking send; a full mailbox ends the pump with an error.
AfterHandler(c, ch, err) ==
    LET full == err # "" /\ ch.pn = "none" /\ ~HasRoom(ch, c) /\ ~closed[c]
        ch2 == IF err = "" THEN ch ELSE SendNB(ch, c, ErrorMsg(err))
    IN [ch |-> ch2,
        rpc |-> IF ch2.pn # "none" THEN "handle"
                ELSE IF full THEN ExitPc(errChan[c], 2) ELSE "read",
        errChan |-> IF ch2.pn = "none" /\ full
                    THEN ErrChanAfter(errChan[c], 2) ELSE errChan[c]]

\* The state a handler leaves behind: r is AfterHandler's result.
Commit(c, r) ==
    /\ mailbox' = r.ch.mb
    /\ enq' = r.ch.hist
    /\ panic' = r.ch.pn
    /\ rpc' = [rpc EXCEPT ![c] = r.rpc]
    /\ errChan' = [errChan EXCEPT ![c] = r.errChan]
    /\ cur' = [cur EXCEPT ![c] = IF r.ch.pn # "none" THEN @ ELSE NoMsg]

\* MessageHandler.handlePing, with HandleMessage's sender lookup: the pong
\* goes to the registry's Session of the user, by a non-blocking send.
HandlePing(c) ==
    LET s == Sender(c)
    IN IF s = NoClient THEN AfterHandler(c, ChanState, "sender not found")
       ELSE IF closed[s] \/ HasRoom(ChanState, s)
       THEN AfterHandler(c, SendNB(ChanState, s, PongMsg), "")
       ELSE AfterHandler(c, ChanState, "failed to send pong: channel full")

\* readPump handling a decoded ping.
RoutePing(c) ==
    /\ Running
    /\ UNCHANGED aside
    /\ rpc[c] = "handle"
    /\ cur[c].type = "ping"
    /\ Commit(c, HandlePing(c))
    /\ UNCHANGED <<clients, mu, broadcast, bpc, bmsg, hpc, user, closed,
                   connOpen, closeCalls, wpc, written, hlen, dbStatus,
                   dbMessages, dbFriends, groupMembers, events>>

\* MessageHandler.createMessagePayload for the row SaveMessage inserted.
Payload(type, row) ==
    [Msg(type, row.from, row.to, row.body) EXCEPT !.id = row.id]

\* DB.SaveMessage: the row appended to the messages table, with its new id.
SavedRow(from, to, body) ==
    [from |-> from, to |-> to, body |-> body, id |-> Len(dbMessages) + 1]

\* A handler without the check for empty content.
GlobalRejectSenderOnly(c, f) ==
    IF Sender(c) = NoClient THEN "sender not found" ELSE ""

\* The reason handleGlobalMessage (after HandleMessage's sender lookup)
\* rejects the frame f of connection c, "" when it accepts it.
GlobalReject(c, f) ==
    IF Sender(c) = NoClient THEN "sender not found"
    ELSE IF f.body = "" THEN "empty message content"
    ELSE ""

\* MessageHandler.handleGlobalMessage up to its blocking send on the
\* broadcast queue: empty content is rejected, otherwise the message is saved
\* and the envelope to broadcast is built.
RouteGlobal(c) ==
    /\ Running
    /\ UNCHANGED aside
    /\ rpc[c] = "handle"
    /\ cur[c].type = "global_message"
    /\ LET row == SavedRow(user[c], None, cur[c].body)
       IN IF GlobalReject(c, cur[c]) # ""
          THEN /\ Commit(c, AfterHandler(c, ChanState, GlobalReject(c, cur[c])))
               /\ UNCHANGED dbMessages
          ELSE /\ dbMessages' = Append(dbMessages, row)
               /\ cur' = [cur EXCEPT ![c] = Payload("global_message", row)]
               /\ rpc' = [rpc EXCEPT ![c] = "bsend"]
               /\ UNCHANGED <<mailbox, enq, panic, errChan>>
    /\ UNCHANGED <<clients, mu, broadcast, bpc, bmsg, hpc, user, closed,
                   connOpen, closeCalls, wpc, written, hlen, dbStatus,
                   dbFriends, groupMembers, events>>

\* handleGlobalMessage when DB.SaveMessage returns an error (the store is
\* unreachable or refuses the insert): the handler returns the error, nothing
\* is saved or broadcast.
RouteGlobalSaveFails(c) ==
    /\ Running
    /\ UNCHANGED aside
    /\ rpc[c] = "handle"
    /\ cur[c].type = "global_message"
    /\ GlobalReject(c, cur[c]) = ""
    /\ Commit(c, AfterHandler(c, ChanState, "failed to save message"))
    /\ UNCHANGED <<clients, mu, broadcast, bpc, bmsg, hpc, user, closed,
                   connOpen, closeCalls, wpc, written, hlen, dbStatus,
                   dbMessages, dbFriends, groupMembers, events>>

\* The non-blocking sends of one message to every Session in S.
RECURSIVE SendAll(_, _, _)
SendAll(ch, S, m) ==
    IF S = {} THEN ch
    ELSE LET c == CHOOSE x \in S : TRUE
         IN SendAll(SendNB(ch, c, m), S \ {c}, m)

\* The reason handleDirectMessage rejects the frame f before saving it.
DirectReject(c, f) ==
    IF Sender(c) = NoClient THEN "sender not found"
    ELSE IF f.body = "" \/ f.to = "" THEN "invalid message content or recipient"
    ELSE IF f.to \notin Users THEN "failed to save message"
    ELSE ""

\* A direct-message handler that treats a full recipient mailbox as an error:
\* the message is saved, nothing is sent and the error goes back to the
\* sender.
RouteDirectStrict(c) ==
    /\ Running
    /\ UNCHANGED aside
    /\ rpc[c] = "handle"
    /\ cur[c].type = "direct_message"
    /\ LET f == cur[c]
           row == SavedRow(user[c], f.to, f.body)
           m == Payload("direct_message", row)
       IN IF DirectReject(c, f) # ""
          THEN /\ Commit(c, AfterHandler(c, ChanState, DirectReject(c, f)))
               /\ UNCHANGED dbMessages
          ELSE /\ dbMessages' = Append(dbMessages, row)
               /\ IF clients[f.to] = NoClient
                  THEN Commit(c, AfterHandler(c, ChanState, "recipient not found"))
                  ELSE IF ~closed[clients[f.to]] /\ ~HasRoom(ChanState, clients[f.to])
                  THEN Commit(c, AfterHandler(c, ChanState, "recipient channel full"))
                  ELSE Commit(c, AfterHandler(c,
                          SendNB(SendNB(ChanState, clients[f.to], m), Sender(c), m),
                          ""))
    /\ UNCHANGED <<clients, mu, broadcast, bpc, bmsg, hpc, user, closed,
                   connOpen, closeCalls, wpc, written, hlen, dbStatus,
                   dbFriends, groupMembers, events>>

\* MessageHandler.handleDirectMessage: the message is saved, then looked up
\* the recipient's Session; when there is none the handler returns an error,
\* otherwise the envelope is sent to the recipient and to the sender, each
\* by a non-blocking send.
RouteDirect(c) ==
    /\ Running
    /\ UNCHANGED aside
    /\ rpc[c] = "handle"
    /\ cur[c].type = "direct_message"
    /\ LET f == cur[c]
           row == SavedRow(user[c], f.to, f.body)
           m == Payload("direct_message", row)
       IN IF DirectReject(c, f) # ""
          THEN /\ Commit(c, AfterHandler(c, ChanState, DirectReject(c, f)))
               /\ UNCHANGED dbMessages
          ELSE /\ dbMessages' = Append(dbMessages, row)
               /\ IF clients[f.to] = NoClient
                  THEN Commit(c, AfterHandler(c, ChanState, "recipient not found"))
                  ELSE Commit(c, AfterHandler(c,
                          SendNB(SendNB(ChanState, clients[f.to], m), Sender(c), m),
                          ""))
    /\ UNCHANGED <<clients, mu, broadcast, bpc, bmsg, hpc, user, closed,
                   connOpen, closeCalls, wpc, written, hlen, dbStatus,
                   dbFriends, groupMembers, events>>

\* The reason handleGroupMessage rejects the frame f before saving it.
GroupReject(c, f) ==
    IF Sender(c) = NoClient THEN "sender not found"
    ELSE IF ~IsGroupMember(user[c], f.to) THEN "user is not a member of this group"
    ELSE ""

\* The Sessions handleGroupMessage sends to: the registry's Sessions of the
\* group's members.
GroupTargets(g) ==
    {clients[u] : u \in {v \in GetGroupMembers(g) : clients[v] # NoClient}}

\* MessageHandler.handleGroupMessage: a non-member is rejected; a member's
\* message is saved and sent to every member with a registered Session.
RouteGroup(c) ==
    /\ Running
    /\ UNCHANGED aside
    /\ rpc[c] = "handle"
    /\ cur[c].type = "group_message"
    /\ LET f == cur[c]
           row == SavedRow(user[c], f.to, f.body)
           m == Payload("group_message", row)
       IN IF GroupReject(c, f) # ""
          THEN /\ Commit(c, AfterHandler(c, ChanState, GroupReject(c, f)))
               /\ UNCHANGED dbMessages
          ELSE /\ dbMessages' = Append(dbMessages, row)
               /\ Commit(c, AfterHandler(c,
                     SendAll(ChanState, GroupTargets(f.to), m), ""))
    /\ UNCHANGED <<clients, mu, broadcast, bpc, bmsg, hpc, user, closed,
                   connOpen, closeCalls, wpc, written, hlen, dbStatus,
                   dbFriends, groupMembers, events>>

\* DB.CreateFriendRequest: INSERT ... 'pending' ON CONFLICT (user_id1,
\* user_id2) DO UPDATE SET status = 'pending' WHERE friends.status = 'rejected'.
CreateFriendRequest(tbl, from, to) ==
    IF tbl[<<from, to>>] \in {"none", "rejected"}
    THEN [tbl EXCEPT ![<<from, to>>] = "pending"]
    ELSE tbl

\* MessageHandler.handleFriendRequest when GetUserByUsername fails: the error
\* envelope is sent to the sender's Session by a blocking send, then the
\* handler returns an error.
RouteFriendRequestUnknown(c) ==
    /\ Running
    /\ UNCHANGED aside
    /\ rpc[c] = "handle"
    /\ cur[c].type = "friend_request"
    /\ Sender(c) # NoClient
    /\ cur[c].to \notin Users
    /\ closed[Sender(c)] \/ HasRoom(ChanState, Sender(c))
    /\ Commit(c, AfterHandler(c,
          SendNB(ChanState, Sender(c), ErrorMsg("User not found")),
          "target user not found"))
    /\ UNCHANGED <<clients, mu, broadcast, bpc, bmsg, hpc, user, closed,
                   connOpen, closeCalls, wpc, written, hlen, dbStatus,
                   dbMessages, dbFriends, groupMembers, events>>

\* MessageHandler.handleFriendRequest for a known target: the request is
\* created in the store, the target's Session (if any) is sent a notification
\* and the sender's Session a confirmation, each by a non-blocking send.
RouteFriendRequest(c) ==
    /\ Running
    /\ UNCHANGED aside
    /\ rpc[c] = "handle"
    /\ cur[c].type = "friend_request"
    /\ Sender(c) = NoClient \/ cur[c].to \in Users
    /\ LET f == cur[c]
           rid == RequestID(user[c], f.to)
           note == [Msg("global_message", user[c], None, "Friend request")
                       EXCEPT !.rid = rid]
           conf == [Msg("friend_request", user[c], f.to, "sent") EXCEPT !.rid = rid]
           ch1 == IF clients[f.to] # NoClient
                  THEN SendNB(ChanState, clients[f.to], note) ELSE ChanState
       IN IF Sender(c) = NoClient
          THEN /\ Commit(c, AfterHandler(c, ChanState, "sender not found"))
               /\ UNCHANGED dbFriends
          ELSE /\ dbFriends' = CreateFriendRequest(dbFriends, user[c], f.to)
               /\ Commit(c, AfterHandler(c, SendNB(ch1, Sender(c), conf), ""))
    /\ UNCHANGED <<clients, mu, broadcast, bpc, bmsg, hpc, user, closed,
                   connOpen, closeCalls, wpc, written, hlen, dbStatus,
                   dbMessages, groupMembers, events>>

\* MessageHandler.handleLoadMessages: the history is sent to the sender's
\* Session by a non-blocking send; a full mailbox is an error.
RouteLoadMessages(c) ==
    /\ Running
    /\ UNCHANGED aside
    /\ rpc[c] = "handle"
    /\ cur[c].type = "load_messages"
    /\ LET s == Sender(c)
       IN Commit(c,
            IF s = NoClient THEN AfterHandler(c, ChanState, "sender not found")
            ELSE IF closed[s] \/ HasRoom(ChanState, s)
            THEN AfterHandler(c,
                    SendNB(ChanState, s, Msg("message_history", None, None, "")), "")
            ELSE AfterHandler(c, ChanState,
                    "failed to send loaded messages: channel full"))
    /\ UNCHANGED <<clients, mu, broadcast, bpc, bmsg, hpc, user, closed,
                   connOpen, closeCalls, wpc, written, hlen, dbStatus,
                   dbMessages, dbFriends, groupMembers, events>>

\* The message types HandleMessage's switch dispatches.
Dispatched ==
    {"load_messages", "global_message", "direct_message", "group_message",
     "ping", "friend_request"}

\* MessageHandler.HandleMessage, default case: any other type, among them
\* friend_response, is an error.
RouteUnknown(c) ==
    /\ Running
    /\ UNCHANGED aside
    /\ rpc[c] = "handle"
    /\ cur[c].type \notin Dispatched
    /\ Commit(c, AfterHandler(c, ChanState,
          IF Sender(c) = NoClient THEN "sender not found"
          ELSE "unknown message type"))
    /\ UNCHANGED <<clients, mu, broadcast, bpc, bmsg, hpc, user, closed,
                   connOpen, closeCalls, wpc, written, hlen, dbStatus,
                   dbMessages, dbFriends, groupMembers, events>>

\* handleGlobalMessage: h.broadcast <- broadcastMsg, a blocking send, after
\* which the handler returns nil.
BroadcastSend(c) ==
    /\ Running
    /\ UNCHANGED aside
    /\ rpc[c] = "bsend"
    /\ Len(broadcast) < BroadcastCap
    /\ broadcast' = Append(broadcast, cur[c])
    /\ cur' = [cur EXCEPT ![c] = NoMsg]
    /\ rpc' = [rpc EXCEPT ![c] = "read"]
    /\ UNCHANGED <<clients, mu, bpc, bmsg, hpc, user, mailbox, closed,
                   connOpen, closeCalls, wpc, errChan, written, enq, hlen,
                   dbStatus, dbMessages, dbFriends, groupMembers, panic,
                   events>>

\* ---------------------------------------------------------- friend handler
\* strings.Split(s, sep) on a string given as its sequence of tokens.
RECURSIVE Split(_, _)
Split(s, sep) ==
    IF \A i \in DOMAIN s : s[i] # sep THEN <<s>>
    ELSE LET k == CHOOSE i \in DOMAIN s :
                     s[i] = sep /\ \A j \in 1..(i-1) : s[j] # sep
         IN <<SubSeq(s, 1, k-1)>> \o Split(SubSeq(s, k+1, Len(s)), sep)

\* DB.GetUser: the users whose id is the string id (none: "user not found").
GetUser(id) == {u \in Users : UUIDOf(u) = id}

\* DB.GetFriendRequestUsers: the request id is split at '-' and must give
\* exactly the four parts "fr", fromID, toID, timestamp.
GetFriendRequestUsers(rid) ==
    LET parts == Split(rid, "-")
    IN IF Len(parts) # 4 \/ parts[1] # <<"fr">>
       THEN [err |-> "invalid request ID format", from |-> NoUser, to |-> NoUser]
       ELSE IF GetUser(parts[2]) = {}
       THEN [err |-> "failed to get sender", from |-> NoUser, to |-> NoUser]
       ELSE IF GetUser(parts[3]) = {}
       THEN [err |-> "failed to get recipient", from |-> NoUser, to |-> NoUser]
       ELSE [err |-> "",
             from |-> CHOOSE u \in GetUser(parts[2]) : TRUE,
             to |-> CHOOSE u \in GetUser(parts[3]) : TRUE]

\* The rows DB.AcceptFriendRequest and DB.RejectFriendRequest update: the
\* pending rows of the pair, in either direction.
PendingRows(tbl, a, b) == {p \in {<<a, b>>, <<b, a>>} : tbl[p] = "pending"}

\* DB.AcceptFriendRequest / DB.RejectFriendRequest: the table afterwards.
SetFriendStatus(tbl, a, b, status) ==
    [p \in DOMAIN tbl |-> IF p \in PendingRows(tbl, a, b) THEN status ELSE tbl[p]]

\* GetFriends evaluated on the table tbl.
FriendsIn(tbl, u) ==
    {v \in Users : tbl[<<u, v>>] = "accepted" \/ tbl[<<v, u>>] = "accepted"}

\* FriendHandler.sendUpdatedFriendList: the friend list goes to the user's
\* Session, if registered, by a non-blocking send.
SendUpdatedFriendList(ch, tbl, u) ==
    IF clients[u] = NoClient THEN ch
    ELSE SendNB(ch, clients[u],
            [Msg("friend_list", None, None, "") EXCEPT !.friends = FriendsIn(tbl, u)])

\* FriendHandler.HandleFriendResponse(userID, response): the error returned,
\* the friends table and the mailboxes it leaves.
HandleFriendResponse(u, rid, accept) ==
    LET r == GetFriendRequestUsers(rid)
        same == [err |-> "", tbl |-> dbFriends, ch |-> ChanState]
    IN IF r.err # "" THEN [same EXCEPT !.err = "failed to get friend request"]
       ELSE IF u # r.to
       THEN [same EXCEPT !.err = "unauthorized to respond to this friend request"]
       ELSE IF PendingRows(dbFriends, r.from, r.to) = {}
       THEN [same EXCEPT !.err = "failed to update friend request"]
       ELSE LET tbl == SetFriendStatus(dbFriends, r.from, r.to,
                          IF accept THEN "accepted" ELSE "rejected")
                verdict == IF accept THEN "accept" ELSE "reject"
                note == [Msg("friend_response", r.to, None, verdict) EXCEPT !.rid = rid]
                conf == [Msg("friend_response", r.from, None, verdict) EXCEPT !.rid = rid]
                ch1 == IF clients[r.from] # NoClient
                       THEN SendNB(ChanState, clients[r.from], note) ELSE ChanState
                ch2 == IF clients[r.to] # NoClient
                       THEN SendNB(ch1, clients[r.to], conf) ELSE ch1
                ch3 == IF accept
                       THEN SendUpdatedFriendList(
                               SendUpdatedFriendList(ch2, tbl, r.from), tbl, r.to)
                       ELSE ch2
            IN [err |-> "", tbl |-> tbl, ch |-> ch3]

\* A call of FriendHandler.HandleFriendResponse for user u, an environment
\* event of its own: no code of the server calls the handler.
FriendResponseCall(u, rid, accept) ==
    /\ Running
    /\ UNCHANGED aside
    /\ events > 0
    /\ events' = events - 1
    /\ LET r == HandleFriendResponse(u, rid, accept)
       IN /\ dbFriends' = r.tbl
          /\ mailbox' = r.ch.mb
          /\ enq' = r.ch.hist
          /\ panic' = r.ch.pn
    /\ UNCHANGED <<clients, mu, broadcast, bpc, bmsg, hpc, user, closed,
                   connOpen, closeCalls, rpc, cur, wpc, errChan, written,
                   hlen, dbStatus, dbMessages, groupMembers>>

\* ------------------------------------------------------------- broadcaster
\* handleBroadcast: `for msg := range s.broadcast` receives the next message.
BroadcastRecv ==
    /\ Running
    /\ UNCHANGED aside
    /\ bpc = "recv"
    /\ broadcast # <<>>
    /\ bmsg' = Head(broadcast)
    /\ broadcast' = Tail(broadcast)
    /\ bpc' = "rlock"
    /\ UNCHANGED <<clients, mu, hpc, user, mailbox, closed, connOpen,
                   closeCalls, rpc, cur, wpc, errChan, written, enq, hlen,
                   dbStatus, dbMessages, dbFriends, groupMembers, panic,
                   events>>

\* The Sessions the fan-out loop visits: the values of the registry.
Registered == {c \in Conns : \E u \in Users : clients[u] = c}

\* A select that takes its default case one message early.
TakesDefaultEarly(c) == Len(mailbox[c]) >= MailboxCap - 1

\* The fan-out's choice for one Session: the default case of the select is
\* taken when the mailbox is full.
TakesDefault(c) == Len(mailbox[c]) >= MailboxCap

\* The Sessions the loop closes and deletes: those taking the default case.
Full == {c \in Registered : TakesDefault(c)}

\* A loop that stops delivering once it has met a full mailbox.
ReceiversUntilFull == IF Full = {} THEN Registered ELSE {}

\* The Sessions the loop sends the message to: the loop runs to the end of the
\* registry whatever it met on the way.
Receivers == Registered \ Full

\* A loop that puts the message in front of what each mailbox already holds.
FanoutNewestFirst ==
    /\ Running
    /\ UNCHANGED aside
    /\ bpc = "rlock"
    /\ mu = "free"
    /\ ~(\E c \in Registered : closed[c])
    /\ mailbox' = [c \in Conns |->
                     IF c \in Receivers THEN <<bmsg>> \o mailbox[c]
                     ELSE mailbox[c]]
    /\ enq' = [c \in Conns |->
                 IF c \in Receivers THEN <<bmsg>> \o enq[c] ELSE enq[c]]
    /\ closed' = [c \in Conns |-> closed[c] \/ c \in Full]
    /\ connOpen' = [c \in Conns |-> connOpen[c] /\ c \notin Full]
    /\ closeCalls' = [c \in Conns |->
                        IF c \in Full THEN closeCalls[c] + 1
                        ELSE closeCalls[c]]
    /\ clients' = [u \in Users |->
                     IF clients[u] \in Full THEN NoClient ELSE clients[u]]
    /\ bpc' = "recv"
    /\ bmsg' = NoMsg
    /\ UNCHANGED <<panic, mu, broadcast, hpc, user, rpc, cur, wpc, errChan,
                   written, hlen, dbStatus, dbMessages, dbFriends,
                   groupMembers, events>>

\* handleBroadcast's loop under s.mu.RLock(): every registered Session is
\* sent the message without blocking; a Session with a full mailbox is closed
\* and deleted from the registry.
Fanout ==
    /\ Running
    /\ UNCHANGED aside
    /\ bpc = "rlock"
    /\ mu = "free"
    /\ IF \E c \in Registered : closed[c]
       THEN /\ panic' = IF \E c \in Receivers : closed[c]
                        THEN "send on closed channel"
                        ELSE "close of closed channel"
            /\ UNCHANGED <<clients, mailbox, enq, closed, connOpen,
                           closeCalls, bpc, bmsg>>
       ELSE /\ mailbox' = [c \in Conns |->
                             IF c \in Receivers THEN Append(mailbox[c], bmsg)
                             ELSE mailbox[c]]
            /\ enq' = [c \in Conns |->
                         IF c \in Receivers THEN Append(enq[c], bmsg)
                         ELSE enq[c]]
            /\ closed' = [c \in Conns |-> closed[c] \/ c \in Full]
            /\ connOpen' = [c \in Conns |-> connOpen[c] /\ c \notin Full]
            /\ closeCalls' = [c \in Conns |->
                                IF c \in Full THEN closeCalls[c] + 1
                                ELSE closeCalls[c]]
            /\ clients' = [u \in Users |->
                             IF clients[u] \in Full THEN NoClient ELSE clients[u]]
            /\ bpc' = "recv"
            /\ bmsg' = NoMsg
            /\ UNCHANGED panic
    /\ UNCHANGED <<mu, broadcast, hpc, user, rpc, cur, wpc, errChan, written,
                   hlen, dbStatus, dbMessages, dbFriends, groupMembers,
                   events>>

\* ------------------------------------------------------------------ frames
\* The frames a client sends after the handshake.
Frames ==
    {PingMsg,
     Msg("global_message", None, None, "hi")}

\* -------------------------------------------------------------------- next
Next ==
    \/ \E c \in Conns : \E u \in AuthUsers[c] : HandleAuthOK(c, u)
    \/ \E c \in Conns : \E u \in AuthUsers[c], why \in AuthFailures :
          HandleAuthFail(c, u, why)
    \/ \E c \in Conns : Announce(c)
    \/ \E c \in Conns : Register(c)
    \/ \E c \in Conns : Teardown(c)
    \/ \E c \in Conns : Logout(c)
    \/ \E c \in Conns, ok \in BOOLEAN : WritePumpWrite(c, ok)
    \/ \E c \in Conns : WritePumpClosed(c)
    \/ \E c \in Conns, ok \in BOOLEAN : WritePumpTick(c, ok)
    \/ \E c \in Conns : WritePumpExit(c)
    \/ \E c \in Conns, f \in Frames : ReadDecode(c, f)
    \/ \E c \in Conns, eof \in BOOLEAN : ReadFail(c, eof)
    \/ \E c \in Conns : ReadPumpExit(c)
    \/ \E c \in Conns : RoutePing(c)
    \/ \E c \in Conns : RouteGlobal(c)
    \/ \E c \in Conns : BroadcastSend(c)
    \/ BroadcastRecv
    \/ Fanout

Spec == Init /\ [][Next]_vars

\* The frames of the domain handlers: direct and group messages, friend
\* requests, history loads, and friend_response, a type the router does not
\* dispatch.
ResponseFrame(from, to, verdict) ==
    [Msg("friend_response", None, None, verdict) EXCEPT !.rid = RequestID(from, to)]

RouterFrames ==
    {Msg("direct_message", None, "u2", "yo"),
     Msg("group_message", None, "g1", "gm"),
     Msg("friend_request", None, "u1", ""),
     Msg("friend_request", None, "nobody", ""),
     ResponseFrame("u2", "u1", "accept"),
     Msg("load_messages", None, None, "")}

\* The user each connection authenticates as under RouterNext: one device per
\* user.
RouterUser == [c \in Conns |-> IF c = "c1" THEN "u1" ELSE "u2"]

\* The system with the frames of the domain handlers and direct calls of the
\* friend handler, one connection per user; the transports fail as in Next,
\* the ping ticker is left out.
RouterNext ==
    \/ \E c \in Conns : HandleAuthOK(c, RouterUser[c])
    \/ \E c \in Conns : Announce(c)
    \/ \E c \in Conns : Register(c)
    \/ \E c \in Conns : Teardown(c)
    \/ \E c \in Conns : Logout(c)
    \/ \E c \in Conns, ok \in BOOLEAN : WritePumpWrite(c, ok)
    \/ \E c \in Conns : WritePumpClosed(c)
    \/ \E c \in Conns : WritePumpExit(c)
    \/ \E c \in Conns, f \in RouterFrames : ReadDecode(c, f)
    \/ \E c \in Conns, eof \in BOOLEAN : ReadFail(c, eof)
    \/ \E c \in Conns : ReadPumpExit(c)
    \/ \E c \in Conns : RouteDirect(c)
    \/ \E c \in Conns : RouteGroup(c)
    \/ \E c \in Conns : RouteFriendRequest(c)
    \/ \E c \in Conns : RouteFriendRequestUnknown(c)
    \/ \E c \in Conns : RouteLoadMessages(c)
    \/ \E c \in Conns : RouteUnknown(c)
    \/ \E u \in Users, accept \in BOOLEAN :
          FriendResponseCall(u, RequestID("u2", "u1"), accept)
    \/ BroadcastRecv
    \/ Fanout

RouterSpec == Init /\ [][RouterNext]_vars

\* ------------------------------------------------------ end-to-end chat
\* The end-to-end chat scenario: each user logs in from one device, the
\* clients send global messages, the peers keep their connections up and
\* the transports accept every write.
ChatFrames == {Msg("global_message", None, None, "hi")}

ChatNext ==
    \/ \E c \in Conns : HandleAuthOK(c, RouterUser[c])
    \/ \E c \in Conns : Announce(c)
    \/ \E c \in Conns : Register(c)
    \/ \E c \in Conns, f \in ChatFrames : ReadDecode(c, f)
    \/ \E c \in Conns : RouteGlobal(c)
    \/ \E c \in Conns : BroadcastSend(c)
    \/ \E c \in Conns : WritePumpWrite(c, TRUE)
    \/ BroadcastRecv
    \/ Fanout

\* Every goroutine that can take a step eventually takes it: the connection
\* handlers, the read pumps inside the router, the write pumps and the
\* broadcaster.
ChatSpec ==
    /\ InitWith(ChatEvents)
    /\ [][ChatNext]_vars
    /\ \A c \in Conns :
          /\ WF_vars(Announce(c))
          /\ WF_vars(Register(c))
          /\ WF_vars(RouteGlobal(c))
          /\ WF_vars(BroadcastSend(c))
          /\ WF_vars(WritePumpWrite(c, TRUE))
    /\ WF_vars(BroadcastRecv)
    /\ WF_vars(Fanout)

\* ------------------------------------------------------------ global chat
\* The global messages clients send: with content and without.
GlobalFrames ==
    {Msg("global_message", None, None, "hi"),
     Msg("global_message", None, None, "")}

\* Global chat with a store that may fail: each user logs in from one
\* device and the transports stay up.
GlobalNext ==
    \/ \E c \in Conns : HandleAuthOK(c, RouterUser[c])
    \/ \E c \in Conns : Announce(c)
    \/ \E c \in Conns : Register(c)
    \/ \E c \in Conns, f \in GlobalFrames : ReadDecode(c, f)
    \/ \E c \in Conns : RouteGlobal(c)
    \/ \E c \in Conns : RouteGlobalSaveFails(c)
    \/ \E c \in Conns : BroadcastSend(c)
    \/ \E c \in Conns : WritePumpWrite(c, TRUE)
    \/ BroadcastRecv
    \/ Fanout

GlobalSpec == InitWith(ChatEvents) /\ [][GlobalNext]_vars

\* ----------------------------------------------------------- group handler
\* DB.RemoveUserFromGroup without its NOT IN (SELECT created_by ...) clause.
RemovedRowsAny(u, g) == IF u \in groupMembers[g] THEN {u} ELSE {}

\* DB.RemoveUserFromGroup: the users whose group_members row the DELETE
\* removes; the creator's row is never among them.
RemovedRows(u, g) ==
    IF u \in groupMembers[g] /\ u # groupCreator[g] THEN {u} ELSE {}

\* The payload.MemberIDs of a group_create.
MemberIDs == UNION {[1..n -> Users] : n \in 0..MaxMemberIDs}

\* A GroupHandler call that has returned err.
Returned(u, g, err) == [NoCall EXCEPT !.user = u, !.group = g, !.err = err]

\* GroupHandler.HandleGroupCreate up to its loop: DB.CreateGroup inserts the
\* group under a new id and its creator as member with role 'admin'.
HandleGroupCreateCall(u, ms) ==
    /\ Running
    /\ gcall.pc = "idle"
    /\ \E x \in Groups : groupCreator[x] = NoUser
    /\ LET g == CHOOSE x \in Groups : groupCreator[x] = NoUser
       IN /\ groupCreator' = [groupCreator EXCEPT ![g] = u]
          /\ groupMembers' = [groupMembers EXCEPT ![g] = {u}]
          /\ groupAdmins' = [groupAdmins EXCEPT ![g] = {u}]
          /\ gcall' = [NoCall EXCEPT !.pc = IF ms = <<>> THEN "created" ELSE "add",
                                     !.user = u, !.group = g, !.members = ms]
    /\ UNCHANGED <<clients, mu, broadcast, bpc, bmsg, hpc, user, mailbox,
                   closed, connOpen, closeCalls, rpc, cur, wpc, errChan,
                   written, enq, hlen, dbStatus, dbMessages, dbFriends,
                   panic, events, shutdown,
                   pushFail, presence>>

\* HandleGroupCreate, loop body: DB.AddUserToGroup for the next member id
\* inserts a row with role 'member', ON CONFLICT DO NOTHING.
GroupCreateAdd ==
    /\ Running
    /\ gcall.pc = "add"
    /\ groupMembers' = [groupMembers EXCEPT ![gcall.group] = @ \cup {Head(gcall.members)}]
    /\ gcall' = [gcall EXCEPT !.pc = "join"]
    /\ UNCHANGED <<clients, mu, broadcast, bpc, bmsg, hpc, user, mailbox,
                   closed, connOpen, closeCalls, rpc, cur, wpc, errChan,
                   written, enq, hlen, dbStatus, dbMessages, dbFriends,
                   panic, events, shutdown, groupCreator, groupAdmins,
                   pushFail, presence>>

\* GroupHandler.HandleGroupJoin up to its send: the group must exist; the
\* user is added with role 'member', ON CONFLICT DO NOTHING.
HandleGroupJoinCall(u, g) ==
    /\ Running
    /\ gcall.pc = "idle"
    /\ IF groupCreator[g] = NoUser
       THEN /\ gcall' = Returned(u, g, "sql: no rows in result set")
            /\ UNCHANGED groupMembers
       ELSE /\ groupMembers' = [groupMembers EXCEPT ![g] = @ \cup {u}]
            /\ gcall' = [Returned(u, g, "") EXCEPT !.pc = "joined"]
    /\ UNCHANGED <<clients, mu, broadcast, bpc, bmsg, hpc, user, mailbox,
                   closed, connOpen, closeCalls, rpc, cur, wpc, errChan,
                   written, enq, hlen, dbStatus, dbMessages, dbFriends,
                   panic, events, shutdown, groupCreator, groupAdmins,
                   pushFail, presence>>

\* GroupHandler.HandleGroupLeave up to its send: a non-member is refused;
\* DB.RemoveUserFromGroup returns an error when it deleted no row.
HandleGroupLeaveCall(u, g) ==
    /\ Running
    /\ gcall.pc = "idle"
    /\ IF ~IsGroupMember(u, g)
       THEN /\ gcall' = Returned(u, g, "Not a member of this group")
            /\ UNCHANGED <<groupMembers, groupAdmins>>
       ELSE IF RemovedRows(u, g) = {}
       THEN /\ gcall' = Returned(u, g, "user not found in group or is the group creator")
            /\ UNCHANGED <<groupMembers, groupAdmins>>
       ELSE /\ groupMembers' = [groupMembers EXCEPT ![g] = @ \ RemovedRows(u, g)]
            /\ groupAdmins' = [groupAdmins EXCEPT ![g] = @ \ RemovedRows(u, g)]
            /\ gcall' = [Returned(u, g, "") EXCEPT !.pc = "left"]
    /\ UNCHANGED <<clients, mu, broadcast, bpc, bmsg, hpc, user, mailbox,
                   closed, connOpen, closeCalls, rpc, cur, wpc, errChan,
                   written, enq, hlen, dbStatus, dbMessages, dbFriends,
                   panic, events, shutdown, groupCreator,
                   pushFail, presence>>

\* GroupHandler.HandleGroupMessage up to its send, a call from outside the
\* server: a non-member is refused, a member's message is saved.
HandleGroupMessageCall(u, g, body) ==
    /\ Running
    /\ gcall.pc = "idle"
    /\ events > 0
    /\ events' = events - 1
    /\ IF ~IsGroupMember(u, g)
       THEN /\ gcall' = Returned(u, g, "Not a member of this group")
            /\ UNCHANGED dbMessages
       ELSE LET row == SavedRow(u, g, body)
            IN /\ dbMessages' = Append(dbMessages, row)
               /\ gcall' = [Returned(u, g, "") EXCEPT
                               !.pc = "message",
                               !.msg = Payload("group_message", row)]
    /\ UNCHANGED <<clients, mu, broadcast, bpc, bmsg, hpc, user, mailbox,
                   closed, connOpen, closeCalls, rpc, cur, wpc, errChan,
                   written, enq, hlen, dbStatus, dbFriends, groupMembers,
                   panic, shutdown, groupCreator, groupAdmins,
                   pushFail, presence>>

\* The notification a GroupHandler call is about to send.
GroupNotification ==
    IF gcall.pc = "join" THEN Msg("group_join", Head(gcall.members), gcall.group, "")
    ELSE IF gcall.pc = "joined" THEN Msg("group_join", gcall.user, gcall.group, "")
    ELSE IF gcall.pc = "left" THEN Msg("group_leave", gcall.user, gcall.group, "")
    ELSE IF gcall.pc = "message" THEN gcall.msg
    ELSE Msg("group_create", gcall.user, gcall.group, "")

\* `h.broadcast <- protocol.NewMessage(...)` of a GroupHandler call, a
\* blocking send: HandleGroupCreate goes on with its loop or its last send,
\* the other handlers return nil.
GroupSend ==
    /\ Running
    /\ gcall.pc \in {"join", "created", "joined", "left", "message"}
    /\ Len(broadcast) < BroadcastCap
    /\ broadcast' = Append(broadcast, GroupNotification)
    /\ gcall' = IF gcall.pc = "join"
                THEN [gcall EXCEPT !.members = Tail(@),
                                   !.pc = IF Tail(gcall.members) = <<>>
                                          THEN "created" ELSE "add"]
                ELSE Returned(gcall.user, gcall.group, "")
    /\ UNCHANGED <<clients, mu, bpc, bmsg, hpc, user, mailbox, closed,
                   connOpen, closeCalls, rpc, cur, wpc, errChan, written, enq,
                   hlen, dbStatus, dbMessages, dbFriends, groupMembers, panic,
                   events, shutdown, groupCreator, groupAdmins,
                   pushFail, presence>>

\* The GroupHandler called by one caller at a time, its notifications taken
\* off the broadcast queue by the broadcaster.
GroupNext ==
    \/ \E u \in Users, ms \in MemberIDs : HandleGroupCreateCall(u, ms)
    \/ GroupCreateAdd
    \/ \E u \in Users, g \in Groups : HandleGroupJoinCall(u, g)
    \/ \E u \in Users, g \in Groups : HandleGroupLeaveCall(u, g)
    \/ GroupSend
    \/ BroadcastRecv
    \/ Fanout

GroupSpec == Init /\ [][GroupNext]_vars

\* The frames of group chat.
GroupChatFrames == {Msg("group_message", None, "g1", "gm")}

\* Group chat through both group-message handlers: each user logs in from
\* one device and the transports stay up; group messages arrive as frames
\* for the router and as calls of GroupHandler.HandleGroupMessage.
GroupChatNext ==
    \/ \E c \in Conns : HandleAuthOK(c, RouterUser[c])
    \/ \E c \in Conns : Announce(c)
    \/ \E c \in Conns : Register(c)
    \/ \E c \in Conns, f \in GroupChatFrames : ReadDecode(c, f)
    \/ \E c \in Conns : RouteGroup(c)
    \/ \E u \in Users, g \in Groups : HandleGroupMessageCall(u, g, "gm")
    \/ GroupSend
    \/ \E c \in Conns : WritePumpWrite(c, TRUE)
    \/ BroadcastRecv
    \/ Fanout

GroupChatSpec == Init /\ [][GroupChatNext]_vars

\* ---------------------------------------------------------------- shutdown
\* The operator's request that the server shut down. main installs no
\* signal handler and Start, handleBroadcast and the pumps select on no
\* context or done channel: the request changes nothing any goroutine reads.
Shutdown ==
    /\ Running
    /\ ~shutdown
    /\ shutdown' = TRUE
    /\ UNCHANGED <<groupCreator, groupAdmins, gcall, pushFail, presence>>
    /\ UNCHANGED <<clients, mu, broadcast, bpc, bmsg, hpc, user, mailbox,
                   closed, connOpen, closeCalls, rpc, cur, wpc, errChan,
                   written, enq, hlen, dbStatus, dbMessages, dbFriends,
                   groupMembers, panic, events>>

\* The chat server up to a shutdown request: the lifecycle of the Sessions
\* with their transports' failures, global messages, and the request.
ShutdownNext ==
    \/ \E c \in Conns : HandleAuthOK(c, RouterUser[c])
    \/ \E c \in Conns : Announce(c)
    \/ \E c \in Conns : Register(c)
    \/ \E c \in Conns : Teardown(c)
    \/ \E c \in Conns : Logout(c)
    \/ \E c \in Conns, ok \in BOOLEAN : WritePumpWrite(c, ok)
    \/ \E c \in Conns : WritePumpClosed(c)
    \/ \E c \in Conns : WritePumpExit(c)
    \/ \E c \in Conns, f \in ChatFrames : ReadDecode(c, f)
    \/ \E c \in Conns, eof \in BOOLEAN : ReadFail(c, eof)
    \/ \E c \in Conns : ReadPumpExit(c)
    \/ \E c \in Conns : RouteGlobal(c)
    \/ \E c \in Conns : BroadcastSend(c)
    \/ BroadcastRecv
    \/ Fanout
    \/ Shutdown

\* Every goroutine that can take a step eventually takes it; what the peers
\* and the network do is not forced.
ShutdownSpec ==
    /\ Init
    /\ [][ShutdownNext]_vars
    /\ \A c \in Conns :
          /\ WF_vars(Announce(c))
          /\ WF_vars(Register(c))
          /\ WF_vars(Teardown(c))
          /\ WF_vars(Logout(c))
          /\ WF_vars(WritePumpWrite(c, TRUE))
          /\ WF_vars(WritePumpClosed(c))
          /\ WF_vars(WritePumpExit(c))
          /\ WF_vars(ReadPumpExit(c))
          /\ WF_vars(RouteGlobal(c))
          /\ WF_vars(BroadcastSend(c))
    /\ WF_vars(BroadcastRecv)
    /\ WF_vars(Fanout)

\* ------------------------------------------------------------------- store
\* The calls of the Store (database.DB) taken by themselves, each one
\* statement executed atomically by the database, from the empty tables.

\* DB.CreateFriendRequest(fromUserID, toUserID) for two existing users.
DBCreateFriendRequest(a, b) ==
    /\ Running
    /\ UNCHANGED aside
    /\ dbFriends' = CreateFriendRequest(dbFriends, a, b)
    /\ UNCHANGED <<clients, mu, broadcast, bpc, bmsg, hpc, user, mailbox,
                   closed, connOpen, closeCalls, rpc, cur, wpc, errChan,
                   written, enq, hlen, dbStatus, dbMessages, groupMembers,
                   panic, events>>

\* DB.AcceptFriendRequest(userID1, userID2): with no pending row it returns
\* an error and the table is as before.
DBAcceptFriendRequest(a, b) ==
    /\ Running
    /\ UNCHANGED aside
    /\ dbFriends' = SetFriendStatus(dbFriends, a, b, "accepted")
    /\ UNCHANGED <<clients, mu, broadcast, bpc, bmsg, hpc, user, mailbox,
                   closed, connOpen, closeCalls, rpc, cur, wpc, errChan,
                   written, enq, hlen, dbStatus, dbMessages, groupMembers,
                   panic, events>>

\* DB.RejectFriendRequest(fromUserID, toUserID), likewise.
DBRejectFriendRequest(a, b) ==
    /\ Running
    /\ UNCHANGED aside
    /\ dbFriends' = SetFriendStatus(dbFriends, a, b, "rejected")
    /\ UNCHANGED <<clients, mu, broadcast, bpc, bmsg, hpc, user, mailbox,
                   closed, connOpen, closeCalls, rpc, cur, wpc, errChan,
                   written, enq, hlen, dbStatus, dbMessages, groupMembers,
                   panic, events>>

StoreNext ==
    \/ \E a \in Users, b \in Users : DBCreateFriendRequest(a, b)
    \/ \E a \in Users, b \in Users : DBAcceptFriendRequest(a, b)
    \/ \E a \in Users, b \in Users : DBRejectFriendRequest(a, b)

StoreSpec == Init /\ [][StoreNext]_vars

\* --------------------------------------------------------------- handshake
\* The handshake with pending friend requests in the store and transports
\* that do not take every write of the initial data; the Sessions it creates
\* are registered, receive the announcements and write them out.
HandshakeNext ==
    \/ \E a \in Users, b \in Users : DBCreateFriendRequest(a, b)
    \/ \E c \in Conns : \E u \in AuthUsers[c] : HandleAuthOK(c, u)
    \/ \E c \in Conns : \E u \in AuthUsers[c] : HandleAuthPartial(c, u)
    \/ \E c \in Conns : \E u \in AuthUsers[c], why \in AuthFailures :
          HandleAuthFail(c, u, why)
    \/ \E c \in Conns : Announce(c)
    \/ \E c \in Conns : Register(c)
    \/ \E c \in Conns : WritePumpWrite(c, TRUE)
    \/ BroadcastRecv
    \/ Fanout

HandshakeSpec == Init /\ [][HandshakeNext]_vars

\* ------------------------------------------------------------ event handler
\* The channels in EventHandler.subscribers.
Subscribed == {subscribers[u] : u \in Users} \ {0}

\* A send on a subscriber channel that has been closed panics, also inside a
\* select with a default case.
SendsOnClosed(S) == \E i \in S : chanClosed[i]

\* `select { case ch <- msg: default: }` for every channel of S: the message
\* is appended where there is room and dropped where there is none.
SendEach(buf, S, m) ==
    [i \in Chans |-> IF i \in S /\ Len(buf[i]) < SubCap
                     THEN Append(buf[i], m) ELSE buf[i]]

\* EventHandler.Broadcast called for the messages ms, one after the other:
\* the content of the channels afterwards.
RECURSIVE BroadcastAll(_, _)
BroadcastAll(buf, ms) ==
    IF ms = <<>> THEN buf
    ELSE BroadcastAll(SendEach(buf, Subscribed, Head(ms)), Tail(ms))

\* The effect of the calls EventHandler.Broadcast(ms[1]), ... on the channels
\* and on the record of the broadcasts.
Emit(ms) ==
    /\ Len(emitted) + Len(ms) <= MaxEmitted
    /\ emitted' = emitted \o ms
    /\ IF ms # <<>> /\ SendsOnClosed(Subscribed)
       THEN panic' = "send on closed channel" /\ UNCHANGED chanBuf
       ELSE chanBuf' = BroadcastAll(chanBuf, ms) /\ UNCHANGED panic

\* What the presence components leave alone of the rest of the system.
ServerFrame ==
    UNCHANGED <<clients, mu, broadcast, bpc, bmsg, hpc, user, mailbox, closed,
                connOpen, closeCalls, rpc, cur, wpc, errChan, written, enq,
                hlen, dbStatus, dbMessages, dbFriends, groupMembers, events,
                shutdown, groupCreator, groupAdmins, gcall, pushFail>>

\* The same, and no EventHandler call is in its loop meanwhile.
PresenceFrame == ServerFrame /\ UNCHANGED ecall

\* ----------------------------------------------------------- status monitor
\* The idle threshold of checkInactiveUsers, in ticks (5 minutes in the
\* code).
IdleThreshold == 1

\* Time passes.
Tick ==
    /\ Running
    /\ now < MaxClock
    /\ now' = now + 1
    /\ PresenceFrame
    /\ UNCHANGED <<userStatus, lastSeen, subscribers, made, chanBuf,
                   chanClosed, emitted, notifications, pruned, panic>>

\* The statuses a caller passes to UpdateStatus: online at authentication,
\* offline at teardown; away is what the sweep stores.
Statuses == {"online", "offline"}

\* StatusMonitor.UpdateStatus(userID, status): when the user has no entry or
\* another status, the status and the last activity are stored and the
\* status is broadcast; otherwise nothing happens.
UpdateStatus(u, status) ==
    /\ Running
    /\ IF userStatus[u] # status
       THEN /\ userStatus' = [userStatus EXCEPT ![u] = status]
            /\ lastSeen' = [lastSeen EXCEPT ![u] = now]
            /\ Emit(<<StatusUpdate(u, status)>>)
       ELSE UNCHANGED <<userStatus, lastSeen, emitted, chanBuf, panic>>
    /\ PresenceFrame
    /\ UNCHANGED <<now, subscribers, made, chanClosed, notifications, pruned>>

\* StatusMonitor.UpdateLastSeen(userID): only the last activity is stored.
UpdateLastSeen(u) ==
    /\ Running
    /\ lastSeen' = [lastSeen EXCEPT ![u] = now]
    /\ PresenceFrame
    /\ UNCHANGED <<now, userStatus, subscribers, made, chanBuf, chanClosed,
                   emitted, notifications, pruned, panic>>

\* A sweep that looks at the last activity only, not at the status.
InactiveAnyStatus ==
    {u \in Users : lastSeen[u] # -1 /\ now - lastSeen[u] > IdleThreshold}

\* The users checkInactiveUsers demotes: those with a last activity older
\* than the threshold whose status is online.
Inactive ==
    {u \in Users : /\ lastSeen[u] # -1
                   /\ now - lastSeen[u] > IdleThreshold
                   /\ userStatus[u] = "online"}

\* StatusMonitor.checkInactiveUsers, one sweep under sm.mu: every inactive
\* user is set to away and the away status is broadcast, in the order the
\* map iteration meets the users.
CheckInactiveUsers ==
    /\ Running
    /\ \E order \in SeqsOf(Inactive) :
          Emit([i \in DOMAIN order |-> StatusUpdate(order[i], "away")])
    /\ userStatus' = [u \in Users |->
                         IF u \in Inactive THEN "away" ELSE userStatus[u]]
    /\ PresenceFrame
    /\ UNCHANGED <<now, lastSeen, subscribers, made, chanClosed,
                   notifications, pruned>>

\* The StatusMonitor with its callers and the clock.
MonitorNext ==
    \/ Tick
    \/ \E u \in Users, status \in Statuses : UpdateStatus(u, status)
    \/ \E u \in Users : UpdateLastSeen(u)
    \/ CheckInactiveUsers

MonitorSpec == Init /\ [][MonitorNext]_vars

\* ------------------------------------------------- event handler, its calls
\* A call that takes h.mu.Lock() without waiting for the readers.
LockedAnyway == TRUE

\* h.mu.Lock() can be taken: no call holds the lock for reading.
CanLock == \A r \in Readers : ecall[r].pc = "idle"

\* EventHandler.Subscribe(userID), under h.mu.Lock(): a new channel is made
\* and stored for the user; a channel stored before stays as it is.
Subscribe(u) ==
    /\ Running
    /\ CanLock
    /\ made < MaxChans
    /\ made' = made + 1
    /\ subscribers' = [subscribers EXCEPT ![u] = made + 1]
    /\ PresenceFrame
    /\ UNCHANGED <<now, userStatus, lastSeen, chanBuf, chanClosed, emitted,
                   notifications, pruned, panic>>

\* EventHandler.Unsubscribe(userID), under h.mu.Lock(): the user's channel,
\* if there is one, is closed and its entry deleted. Closing a closed
\* channel panics.
Unsubscribe(u) ==
    /\ Running
    /\ CanLock
    /\ IF subscribers[u] = 0
       THEN UNCHANGED <<subscribers, chanClosed, panic>>
       ELSE IF chanClosed[subscribers[u]]
       THEN /\ panic' = "close of closed channel"
            /\ UNCHANGED <<subscribers, chanClosed>>
       ELSE /\ chanClosed' = [chanClosed EXCEPT ![subscribers[u]] = TRUE]
            /\ subscribers' = [subscribers EXCEPT ![u] = 0]
            /\ UNCHANGED panic
    /\ PresenceFrame
    /\ UNCHANGED <<now, userStatus, lastSeen, made, chanBuf, emitted,
                   notifications, pruned>>

\* EventHandler.NotifyUser(userID, msg) as one step, for a caller that no
\* other call runs beside: the channels and the panic it leaves.
NotifyUser(u, m) ==
    IF subscribers[u] = 0
    THEN UNCHANGED <<chanBuf, panic>>
    ELSE IF SendsOnClosed({subscribers[u]})
    THEN panic' = "send on closed channel" /\ UNCHANGED chanBuf
    ELSE chanBuf' = SendEach(chanBuf, {subscribers[u]}, m) /\ UNCHANGED panic

\* The messages the callers of the EventHandler pass to it.
EventMsgs == {StatusUpdate("u1", "away")}

\* EventHandler.Broadcast(msg) up to its loop: h.mu.RLock(), which other
\* readers do not exclude; the loop ranges over h.subscribers.
BroadcastRLock(r, m) ==
    /\ Running
    /\ ecall[r].pc = "idle"
    /\ Len(emitted) < MaxEmitted
    /\ emitted' = Append(emitted, m)
    /\ ecall' = [ecall EXCEPT ![r] = [pc |-> "loop", msg |-> m,
                                      todo |-> Subscribed]]
    /\ ServerFrame
    /\ UNCHANGED <<now, userStatus, lastSeen, subscribers, made, chanBuf,
                   chanClosed, notifications, pruned, panic>>

\* EventHandler.NotifyUser(userID, msg) up to its send: h.mu.RLock() and
\* the lookup of the user's channel.
NotifyUserRLock(r, u, m) ==
    /\ Running
    /\ ecall[r].pc = "idle"
    /\ ecall' = [ecall EXCEPT ![r] =
                    [pc |-> "loop", msg |-> m,
                     todo |-> IF subscribers[u] = 0 THEN {}
                              ELSE {subscribers[u]}]]
    /\ ServerFrame
    /\ UNCHANGED <<now, userStatus, lastSeen, subscribers, made, chanBuf,
                   chanClosed, emitted, notifications, pruned, panic>>

\* One `select { case ch <- msg: default: }` of a call, on the channel i it
\* has still to visit (a map is ranged over in any order): the message is
\* appended when the channel has room and dropped when it has none; a closed
\* channel panics.
SelectSend(r, i) ==
    /\ Running
    /\ ecall[r].pc = "loop"
    /\ i \in ecall[r].todo
    /\ IF chanClosed[i]
       THEN panic' = "send on closed channel" /\ UNCHANGED <<chanBuf, ecall>>
       ELSE /\ chanBuf' = SendEach(chanBuf, {i}, ecall[r].msg)
            /\ ecall' = [ecall EXCEPT ![r].todo = @ \ {i}]
            /\ UNCHANGED panic
    /\ ServerFrame
    /\ UNCHANGED <<now, userStatus, lastSeen, subscribers, made, chanClosed,
                   emitted, notifications, pruned>>

\* The deferred h.mu.RUnlock() of a call whose loop is over.
RUnlock(r) ==
    /\ Running
    /\ ecall[r].pc = "loop"
    /\ ecall[r].todo = {}
    /\ ecall' = [ecall EXCEPT ![r] = NoRead]
    /\ ServerFrame
    /\ UNCHANGED <<now, userStatus, lastSeen, subscribers, made, chanBuf,
                   chanClosed, emitted, notifications, pruned, panic>>

\* The holder of a channel returned by Subscribe receives from it.
SubscriberRecv(i) ==
    /\ Running
    /\ i <= made
    /\ chanBuf[i] # <<>>
    /\ chanBuf' = [chanBuf EXCEPT ![i] = Tail(@)]
    /\ PresenceFrame
    /\ UNCHANGED <<now, userStatus, lastSeen, subscribers, made, chanClosed,
                   emitted, notifications, pruned, panic>>

\* The EventHandler with its callers: two goroutines that broadcast and
\* notify, and subscribers that come, go and receive.
EventNext ==
    \/ \E u \in Users : Subscribe(u)
    \/ \E u \in Users : Unsubscribe(u)
    \/ \E r \in Readers, m \in EventMsgs : BroadcastRLock(r, m)
    \/ \E r \in Readers, u \in Users, m \in EventMsgs : NotifyUserRLock(r, u, m)
    \/ \E r \in Readers, i \in Chans : SelectSend(r, i)
    \/ \E r \in Readers : RUnlock(r)
    \/ \E i \in Chans : SubscriberRecv(i)

EventSpec == Init /\ [][EventNext]_vars

\* ----------------------------------------------------- notification handler
\* The recency window of CleanOldNotifications, in ticks (7 days in the
\* code).
RecencyWindow == 2

\* The NotificationType values of the model.
NotifTypes == {"new_message", "friend_request"}

\* The Notification AddNotification builds.
NewNotification(u, type) ==
    [type |-> type, user |-> u, ts |-> now, read |-> FALSE]

\* NotificationHandler.AddNotification(userID, notifType, data), under
\* h.mu.Lock(): the notification is appended to the user's list and the
\* user is notified through the EventHandler.
AddNotification(u, type) ==
    /\ Running
    /\ Len(notifications[u]) < MaxNotifs
    /\ notifications' = [notifications EXCEPT
                            ![u] = Append(@, NewNotification(u, type))]
    /\ NotifyUser(u, Msg("status_update", u, None, "notification"))
    /\ PresenceFrame
    /\ UNCHANGED <<now, userStatus, lastSeen, subscribers, made, chanClosed,
                   emitted, pruned>>

\* NotificationHandler.MarkAsRead(userID, notifType): every notification of
\* the user with that type is flagged read.
MarkAsRead(u, type) ==
    /\ Running
    /\ notifications' = [notifications EXCEPT ![u] =
           [i \in DOMAIN @ |-> IF @[i].type = type
                               THEN [@[i] EXCEPT !.read = TRUE] ELSE @[i]]]
    /\ PresenceFrame
    /\ UNCHANGED <<now, userStatus, lastSeen, subscribers, made, chanBuf,
                   chanClosed, emitted, pruned, panic>>

\* A comparison that keeps what lies before the cutoff.
BeforeCutoff(n) == n.ts < now - RecencyWindow

\* `n.Timestamp.After(cutoff)` with cutoff = now - 7 days.
Recent(n) == n.ts > now - RecencyWindow

\* The loop of CleanOldNotifications over one list: the recent ones, in
\* the order of the list.
RECURSIVE KeepRecent(_)
KeepRecent(ns) ==
    IF ns = <<>> THEN <<>>
    ELSE (IF Recent(Head(ns)) THEN <<Head(ns)>> ELSE <<>>)
         \o KeepRecent(Tail(ns))

\* The number of notifications a call of CleanOldNotifications drops.
Removed ==
    Cardinality({<<u, i>> \in Users \X (1..MaxNotifs) :
                    i <= Len(notifications[u]) /\ ~Recent(notifications[u][i])})

\* NotificationHandler.CleanOldNotifications, under h.mu.Lock().
CleanOldNotifications ==
    /\ Running
    /\ notifications' = [u \in Users |-> KeepRecent(notifications[u])]
    /\ pruned' = pruned + Removed
    /\ PresenceFrame
    /\ UNCHANGED <<now, userStatus, lastSeen, subscribers, made, chanBuf,
                   chanClosed, emitted, panic>>

\* The NotificationHandler with its callers and the clock, no user being
\* subscribed to the EventHandler.
NotifyNext ==
    \/ Tick
    \/ \E u \in Users, type \in NotifTypes : AddNotification(u, type)
    \/ \E u \in Users, type \in NotifTypes : MarkAsRead(u, type)
    \/ CleanOldNotifications

NotifySpec == Init /\ [][NotifyNext]_vars

\* ================================================================ properties
\* Helpers of the properties below.

\* The last element of a non-empty sequence.
Last(q) == q[Len(q)]

\* Connection c has a Session whose pumps were started and whose handler has
\* not yet begun its cleanup.
Serving(c) == hpc[c] = "running"

\* What the write pump of c has written from the mailbox: the transport's
\* output after the handshake, without the pump's own pings.
WrittenFromMailbox(c) ==
    LET NotPing(m) == m.type # "ping"
    IN SelectSeq(SubSeq(written[c], hlen[c] + 1, Len(written[c])), NotPing)

IsPrefix(p, q) == Len(p) <= Len(q) /\ SubSeq(q, 1, Len(p)) = p

\* The step is a completed fan-out of the broadcaster.
FanoutStep == bpc = "rlock" /\ bpc' = "recv"

\* Session c is a value of the registry.
InRegistry(c) == \E u \in Users : clients[u] = c

\* C1: registry uniqueness. Of two Sessions of one user that are both being
\* served, at least one has been torn down (its mailbox closed): a second
\* registration of a user leaves exactly one live Session.
RegistryUniqueness ==
    \A c, d \in Conns :
        (c # d /\ Serving(c) /\ Serving(d) /\ user[c] = user[d])
            => (closed[c] \/ closed[d])

\* C2: stale-teardown guard. When the handler of Session c leaves its serving
\* state while the registry entry of its user points at another Session, the
\* entry, that Session's transport and mailbox, and the user's stored status
\* are left as they were.
StaleTeardownAct ==
    \A c \in Conns :
        (Serving(c) /\ ~Serving(c)' /\ clients[user[c]] \notin {c, NoClient})
            => /\ clients'[user[c]] = clients[user[c]]
               /\ connOpen'[clients[user[c]]] = connOpen[clients[user[c]]]
               /\ closed'[clients[user[c]]] = closed[clients[user[c]]]
               /\ dbStatus'[user[c]] = dbStatus[user[c]]

StaleTeardownGuard == [][StaleTeardownAct]_vars

\* C3: Client.Close runs exactly once per Session: never twice, and once by
\* the time the Session's connection handler has returned.
CloseExactlyOnce ==
    \A c \in Conns :
        /\ closeCalls[c] <= 1
        /\ (hpc[c] = "done" /\ user[c] # NoUser) => closeCalls[c] = 1

\* C4: a closed mailbox is terminal. No producer ever performs a send on a
\* mailbox that has been closed (in Go such a send panics).
ClosedMailboxTerminal == panic # "send on closed channel"

\* C5: mailbox FIFO. What the write pump has written from the mailbox is, in
\* order, a prefix of what was enqueued; while the pump runs, the enqueued
\* messages are exactly the written ones followed by the buffered ones (none
\* reordered, duplicated or skipped).
MailboxFIFO ==
    \A c \in Conns :
        /\ IsPrefix(WrittenFromMailbox(c), enq[c])
        /\ wpc[c] = "run" => enq[c] = WrittenFromMailbox(c) \o mailbox[c]

\* C5 witness: a transport has been written two different mailbox messages.
MailboxFIFOWitness ==
    \E c \in Conns :
        /\ Len(WrittenFromMailbox(c)) >= 2
        /\ WrittenFromMailbox(c)[1] # WrittenFromMailbox(c)[2]
        /\ wpc[c] = "run"

\* C6: broadcast completeness. A fan-out that finds no registered Session
\* with a full mailbox enqueues the dequeued message exactly once onto the
\* mailbox of every registered Session, and closes or removes none.
BroadcastCompletenessAct ==
    (FanoutStep /\ \A c \in Conns : InRegistry(c) => Len(mailbox[c]) < MailboxCap)
        => /\ \A c \in Conns :
                 InRegistry(c) => /\ mailbox'[c] = Append(mailbox[c], bmsg)
                                  /\ enq'[c] = Append(enq[c], bmsg)
           /\ clients' = clients

BroadcastCompleteness == [][BroadcastCompletenessAct]_vars

\* C6 witness: the broadcaster has just fanned a message out to two
\* registered Sessions; it is the newest message of both mailboxes.
BroadcastCompletenessWitness ==
    /\ bpc = "recv"
    /\ \A c \in Conns : InRegistry(c) /\ ~closed[c] /\ mailbox[c] # <<>>
    /\ Last(mailbox["c1"]) = Last(mailbox["c2"])
    /\ Last(enq["c1"]).type \in {"status_update", "global_message"}

\* C7: broadcast backpressure. In a fan-out, every registered Session whose
\* mailbox is at capacity is closed (mailbox and transport) and removed from
\* the registry, and every other registered Session has the message enqueued,
\* all in that one step.
BroadcastBackpressureAct ==
    FanoutStep
        => \A c \in Conns :
              InRegistry(c)
                 => IF Len(mailbox[c]) >= MailboxCap
                    THEN /\ closed'[c]
                         /\ ~connOpen'[c]
                         /\ \A u \in Users : clients'[u] # c
                         /\ mailbox'[c] = mailbox[c]
                    ELSE /\ mailbox'[c] = Append(mailbox[c], bmsg)
                         /\ \E u \in Users : clients'[u] = c

BroadcastBackpressure == [][BroadcastBackpressureAct]_vars

\* C7 witness: a Session still being served was closed with its mailbox at
\* capacity and is out of the registry, while another, registered Session
\* holds a broadcast message the closed one was never enqueued.
BroadcastBackpressureWitness ==
    \E c, d \in Conns :
        /\ c # d
        /\ Serving(c) /\ closed[c] /\ ~InRegistry(c)
        /\ Len(mailbox[c]) = MailboxCap
        /\ InRegistry(d) /\ ~closed[d] /\ mailbox[d] # <<>>
        /\ Last(mailbox[d]).type \in {"status_update", "global_message"}
        /\ \A i \in DOMAIN enq[c] : enq[c][i] # Last(mailbox[d])

\* C8: broadcaster liveness. The broadcaster is never left waiting for the
\* registry lock while the lock's holder waits for room in a full broadcast
\* queue, a state neither of them can leave.
BroadcasterNeverStuck ==
    ~(/\ bpc = "rlock"
      /\ mu \in Conns
      /\ Len(broadcast) >= BroadcastCap)

\* C9: group isolation. When the router has handled a group_message whose
\* sender is not a member of the target group, nothing was persisted, no
\* mailbox was enqueued anything but the error reply to the sender's own
\* Session, and the frame was answered with that error or ended the pump.
GroupIsolationAct ==
    \A c \in Conns :
        (/\ rpc[c] = "handle"
         /\ cur[c].type = "group_message"
         /\ ~(cur[c].to \in Groups /\ user[c] \in groupMembers[cur[c].to])
         /\ (rpc'[c] # "handle" \/ panic' # panic))
            => /\ dbMessages' = dbMessages
               /\ \A d \in Conns \ {c} : enq'[d] = enq[d] /\ mailbox'[d] = mailbox[d]
               /\ \/ enq'[c] = enq[c]
                  \/ \E e \in {"user is not a member of this group", "sender not found"} :
                        enq'[c] = Append(enq[c], ErrorMsg(e))
               /\ \/ enq'[c] # enq[c]
                  \/ rpc'[c] \in {"done", "sendnil", "senderr"}
                  \/ panic' # panic

GroupIsolation == [][GroupIsolationAct]_vars

\* C9 witness: a registered non-member's group_message was answered with the
\* membership error while a member's Session was registered.
GroupIsolationWitness ==
    \E c, d \in Conns :
        /\ user[c] # NoUser /\ user[c] \notin groupMembers["g1"]
        /\ enq[c] # <<>>
        /\ Last(enq[c]) = ErrorMsg("user is not a member of this group")
        /\ InRegistry(d) /\ user[d] \in groupMembers["g1"]

\* C10: friend acceptance symmetry. When the router has handled a
\* friend_response with accept=true sent by the recipient of a pending friend
\* request, the request is accepted and the requester's and the responder's
\* Sessions, when registered with room in their mailboxes, are enqueued a
\* friend_list that contains the other party.
FriendAcceptanceAct ==
    \A c \in Conns : \A from \in Users :
        (/\ rpc[c] = "handle"
         /\ cur[c] = ResponseFrame(from, user[c], "accept")
         /\ dbFriends[<<from, user[c]>>] = "pending"
         /\ rpc'[c] # "handle")
            => /\ dbFriends'[<<from, user[c]>>] = "accepted"
               /\ \A p \in {<<from, user[c]>>, <<user[c], from>>} :
                     LET s == clients[p[1]]
                     IN (s # NoClient /\ ~closed[s] /\ Len(mailbox[s]) + 2 <= MailboxCap)
                           => \E i \in DOMAIN enq'[s] :
                                 /\ i > Len(enq[s])
                                 /\ enq'[s][i].type = "friend_list"
                                 /\ p[2] \in enq'[s][i].friends

FriendAcceptanceSymmetry == [][FriendAcceptanceAct]_vars

\* The first thing written to the transport of c is a successful
\* AuthResponse.
WroteAuthResponse(c) == written[c] # <<>> /\ written[c][1].type = "auth_response"

\* C11: a failed handshake never registers. A handshake step that does not
\* write a successful AuthResponse ends the connection handler with the
\* transport closed, creates no Session (no user, no mailbox content, no
\* pumps) and leaves the registry as it was.
FailedHandshakeAct ==
    \A c \in Conns :
        (hpc[c] = "idle" /\ hpc'[c] # "idle" /\ ~WroteAuthResponse(c)')
            => /\ hpc'[c] = "done"
               /\ ~connOpen'[c]
               /\ clients' = clients
               /\ user'[c] = NoUser
               /\ rpc'[c] = "off" /\ wpc'[c] = "off"
               /\ mailbox'[c] = <<>> /\ ~closed'[c]

FailedHandshakeNeverRegisters == [][FailedHandshakeAct]_vars

\* C11 witness: a handshake was rejected for its credentials while another
\* user's Session is registered; the rejected connection has no Session.
FailedHandshakeWitness ==
    \E c, d \in Conns :
        /\ hpc[c] = "done" /\ user[c] = NoUser
        /\ written[c] = <<ErrorMsg("Authentication failed")>>
        /\ InRegistry(d) /\ ~InRegistry(c)

\* The router has accepted and saved, as row i, a global message "hi" of
\* the user of connection a and is handing it to the broadcast queue.
HandedToBroadcast(a, i) ==
    /\ rpc[a] = "bsend"
    /\ cur[a].id = i
    /\ i \in DOMAIN dbMessages
    /\ dbMessages[i] = [from |-> user[a], to |-> None, body |-> "hi", id |-> i]

\* The transport of b has been written the global_message envelope of row i
\* with content "hi" and the user of a as sender.
WrittenTo(b, a, i) ==
    \E k \in DOMAIN written[b] :
        written[b][k] = [Msg("global_message", user[a], None, "hi") EXCEPT !.id = i]

\* C12: end-to-end global chat. Once the router has accepted a global message
\* "hi" of A while B is registered, B's transport is eventually written the
\* global_message envelope with content "hi" and A as sender, unless B is
\* removed for a full mailbox.
EndToEndGlobalChat ==
    \A a \in Conns : \A b \in Conns \ {a} : \A i \in 1..ChatEvents :
        (HandedToBroadcast(a, i) /\ InRegistry(b) /\ ~closed[b])
            ~> (WrittenTo(b, a, i) \/ closed[b])

\* No other connection has authenticated, or tried to authenticate, as the
\* user of c: whatever the store says about that user comes from c alone.
SoleDevice(c) ==
    \A d \in Conns \ {c} :
        hpc[d] = "idle" \/ (user[d] # NoUser /\ user[d] # user[c])

\* C13: teardown post-state. Once the connection handler of a Session has
\* returned, the Session's mailbox and transport are closed and its user is
\* marked offline in the store (when the user had no other device).
TeardownPostState ==
    \A c \in Conns :
        (hpc[c] = "done" /\ user[c] # NoUser)
            => /\ closed[c]
               /\ ~connOpen[c]
               /\ SoleDevice(c) => dbStatus[user[c]] = "offline"

\* An inbound message of connection c is in the router: decoded, its handler
\* not yet returned.
InRouter(c) == rpc[c] \in {"handle", "bsend"}

\* C14: per-connection inbound FIFO. A frame is decoded from a connection
\* only when no message of that connection is in the router; the message in
\* the router stays the one decoded last until its handler returns (only the
\* envelope built from it takes its place on the way to the broadcast queue),
\* and the handler's return leaves the router empty for the connection.
InboundFIFOAct ==
    \A c \in Conns :
        /\ (cur'[c] # cur[c] /\ rpc'[c] = "handle")
              => (~InRouter(c) /\ cur[c] = NoMsg)
        /\ (InRouter(c) /\ cur'[c] # cur[c])
              => \/ ~InRouter(c)' /\ cur'[c] = NoMsg
                 \/ /\ rpc[c] = "handle" /\ rpc'[c] = "bsend"
                    /\ cur'[c].type = cur[c].type /\ cur'[c].body = cur[c].body
        /\ (InRouter(c) /\ ~InRouter(c)') => cur'[c] = NoMsg
        /\ InRouter(c)' <=> cur'[c] # NoMsg

RouterStep(c) == rpc[c] = "handle" /\ (rpc'[c] # "handle" \/ panic' # panic)

\* C15: registry accesses are mutually excluded. The router reads the
\* registry map only while no connection handler holds the registry lock
\* exclusively (between s.mu.Lock() and s.mu.Unlock() of the cleanup, where
\* the map is written).
RegistryExclusionAct == \A c \in Conns : RouterStep(c) => mu = "free"

RegistryMutualExclusion == [][RegistryExclusionAct]_vars


\* A pump of connection c stands in a send on errChan that can never
\* complete: the buffer is full and the only receiver, handleConnection, has
\* taken its one value and returned.
BlockedForever(pc, c) ==
    /\ pc \in {"senderr", "sendnil"}
    /\ errChan[c] = ErrChanCap
    /\ hpc[c] = "done"

\* C16: no blocked tasks after a failure. Once the connection handler has
\* finished its teardown, neither the read pump nor the write pump of the
\* Session is left blocked for ever in a send on the Session's error channel.
NoPumpBlockedForever ==
    \A c \in Conns :
        /\ ~BlockedForever(rpc[c], c)
        /\ ~BlockedForever(wpc[c], c)


\* The step in which the handler of connection c's inbound message returns
\* to the read pump, the pump's reaction to the returned error included.
HandlerReturn(c) ==
    /\ rpc[c] \in {"handle", "bsend"}
    /\ rpc'[c] \notin {"handle", "bsend"}
    /\ panic' = panic

\* C17: domain errors do not end the Session. Whatever a handler returns for
\* an inbound message, an error included, the read pump goes on to read the
\* next inbound message: no return of a handler ends the read pump, and so
\* the Session.
DomainErrorAct ==
    \A c \in Conns : HandlerReturn(c) => rpc'[c] = "read"

DomainErrorsKeepSession == [][DomainErrorAct]_vars


\* The envelopes enqueued onto the mailbox of x in the step.
Added(x) == SubSeq(enq'[x], Len(enq[x]) + 1, Len(enq'[x]))

\* The step in which the router returns from a direct_message of connection
\* c with non-empty content, addressed to an existing user.
DirectStep(c) ==
    /\ rpc[c] = "handle"
    /\ rpc'[c] # "handle"
    /\ panic' = panic
    /\ cur[c].type = "direct_message"
    /\ cur[c].body # ""
    /\ cur[c].to \in Users
    /\ Sender(c) # NoClient

\* C18: direct message to an offline recipient. A direct_message with
\* content and recipient is persisted; only the formatted message is
\* enqueued, and only onto the mailboxes of the recipient's and the sender's
\* Sessions; the sender's mailbox receives it as echo whenever it has room,
\* whether or not the recipient has a registered Session, and so does a
\* registered recipient's; no error envelope is returned to the sender.
DirectMessageAct ==
    \A c \in Conns :
        DirectStep(c) =>
            LET row == SavedRow(user[c], cur[c].to, cur[c].body)
                m == Payload("direct_message", row)
                s == Sender(c)
                r == clients[cur[c].to]
            IN /\ dbMessages' = Append(dbMessages, row)
               /\ \A x \in Conns :
                     /\ \A i \in DOMAIN Added(x) : Added(x)[i] = m
                     /\ x \notin {s, r} => Added(x) = <<>>
               /\ HasRoom(ChanState, s) => Added(s) # <<>>
               /\ (r # NoClient /\ HasRoom(ChanState, r)) => Added(r) # <<>>
               /\ rpc'[c] = "read"

DirectMessageDelivery == [][DirectMessageAct]_vars


\* The step in which the router returns from a direct or group message of
\* connection c that it accepted and saved and for which it reached its
\* sends.
PointToPointStep(c) ==
    /\ rpc[c] = "handle"
    /\ rpc'[c] # "handle"
    /\ panic' = panic
    /\ \/ /\ cur[c].type = "direct_message"
          /\ DirectReject(c, cur[c]) = ""
          /\ clients[cur[c].to] # NoClient
       \/ /\ cur[c].type = "group_message"
          /\ GroupReject(c, cur[c]) = ""

\* The Sessions such a message is sent to.
PointToPointTargets(c) ==
    IF cur[c].type = "direct_message"
    THEN {clients[cur[c].to], Sender(c)}
    ELSE GroupTargets(cur[c].to)

\* Those of them whose mailbox is full when the handler starts.
FullTargets(c) ==
    {x \in PointToPointTargets(c) : ~closed[x] /\ Len(mailbox[x]) = MailboxCap}

\* C19: point-to-point backpressure. When a direct or group send finds the
\* mailbox of a recipient full, the recipient is skipped silently: the
\* handler returns no error (the read pump goes on reading and no error
\* envelope reaches the sender), the recipient's Session is neither closed
\* nor removed from the registry and its mailbox is untouched, the message
\* is persisted, and every other recipient still gets the message.
PointToPointBackpressureAct ==
    \A c \in Conns :
        (PointToPointStep(c) /\ FullTargets(c) # {}) =>
            LET row == SavedRow(user[c], cur[c].to, cur[c].body)
                m == Payload(cur[c].type, row)
            IN /\ rpc'[c] = "read"
               /\ \A i \in DOMAIN Added(c) : Added(c)[i].type # "error"
               /\ \A x \in FullTargets(c) :
                     /\ Added(x) = <<>>
                     /\ mailbox'[x] = mailbox[x]
                     /\ closed'[x] = closed[x]
                     /\ connOpen'[x] = connOpen[x]
               /\ clients' = clients
               /\ dbMessages' = Append(dbMessages, row)
               /\ \A y \in PointToPointTargets(c) \ FullTargets(c) :
                     /\ Added(y) # <<>>
                     /\ \A i \in DOMAIN Added(y) : Added(y)[i] = m

Exited(pc) == pc \in {"off", "done"}

\* C20: global shutdown. After a shutdown request every Session's read pump
\* and write pump and the broadcast coordinator eventually have exited.
GlobalShutdown ==
    shutdown ~> /\ \A c \in Conns : Exited(rpc[c]) /\ Exited(wpc[c])
                /\ Exited(bpc)


\* The rows of the friends table that relate a and b, in either direction,
\* and are pending or accepted.
ActiveRows(a, b) ==
    {p \in {<<a, b>>, <<b, a>>} : dbFriends[p] \in {"pending", "accepted"}}

\* C21: friend relationship uniqueness. Whatever requests, acceptances and
\* rejections were issued between two users, in either direction, the
\* friends table holds at most one pending or accepted relationship for the
\* unordered pair.
FriendRelationshipUniqueness ==
    \A a \in Users, b \in Users : Cardinality(ActiveRows(a, b)) <= 1


\* The creator of every existing group is a member of it with role admin.
CreatorIsAdmin ==
    \A g \in Groups :
        groupCreator[g] # NoUser
            => groupCreator[g] \in groupMembers[g] \cap groupAdmins[g]

\* The step is HandleGroupLeave called by the creator of the group.
LeaveByCreator ==
    /\ gcall.pc = "idle"
    /\ gcall' # gcall
    /\ gcall'.pc \in {"idle", "left"}
    /\ gcall'.user = groupCreator[gcall'.group]

\* C22: the group creator is permanent. After CreateGroup and after every
\* step of a group create-with-members, join or leave, the creator of a
\* group is a member of it with role admin; a leave by the creator returns
\* an error and changes no membership.
GroupCreatorPermanentAct ==
    /\ CreatorIsAdmin'
    /\ LeaveByCreator
          => /\ gcall'.pc = "idle"
             /\ gcall'.err # ""
             /\ groupMembers' = groupMembers
             /\ groupAdmins' = groupAdmins

GroupCreatorPermanent == [][GroupCreatorPermanentAct]_vars

\* The creator of a group made by CreateGroup, which another user has
\* joined, called leave and got the error of RemoveUserFromGroup.
GroupCreatorPermanentWitness ==
    /\ gcall.pc = "idle"
    /\ gcall.group = "g2"
    /\ gcall.user = groupCreator["g2"]
    /\ gcall.err = "user not found in group or is the group creator"
    /\ Cardinality(groupMembers["g2"]) = 2


\* The Session of connection d has announced its user online and has not
\* yet announced the user offline.
AnnouncedOnline(d) == hpc[d] \in {"register", "running", "logout"}

\* The step in which the handshake of connection c emits status_update
\* online for its user.
EmitsOnline(c) ==
    /\ hpc[c] = "announce"
    /\ hpc'[c] = "register"
    /\ broadcast' = Append(broadcast, StatusUpdate(user[c], "online"))

\* C23: redundant presence transitions are suppressed. A status_update is
\* emitted only when the user's presence changes: the authentication of a
\* user who is already online, announced so by another Session that has not
\* gone offline since, emits no further online update.
PresenceSuppressionAct ==
    \A c \in Conns :
        EmitsOnline(c)
            => ~\E d \in Conns \ {c} : user[d] = user[c] /\ AnnouncedOnline(d)

RedundantPresenceSuppressed == [][PresenceSuppressionAct]_vars


\* Every group message ever enqueued onto a mailbox is a persisted message
\* of a group the mailbox's user is a member of.
MembersOnly ==
    \A c \in Conns : \A i \in DOMAIN enq[c] :
        enq[c][i].type = "group_message"
            => /\ user[c] \in GetGroupMembers(enq[c][i].to)
               /\ \E k \in DOMAIN dbMessages : dbMessages[k].id = enq[c][i].id

\* C24: group delivery scope. A group message accepted from a member is
\* persisted and enqueued onto the mailbox of every member of the group who
\* is registered and has room, and a group message reaches the mailbox of
\* no user who is not a member of its group, whichever of the two
\* group-message handlers took it.
GroupDeliveryScopeAct ==
    /\ MembersOnly'
    /\ \A c \in Conns :
          (/\ PointToPointStep(c)
           /\ cur[c].type = "group_message")
             => LET row == SavedRow(user[c], cur[c].to, cur[c].body)
                IN /\ dbMessages' = Append(dbMessages, row)
                   /\ \A x \in GroupTargets(cur[c].to) :
                         HasRoom(ChanState, x)
                            => Added(x) = <<Payload("group_message", row)>>

GroupDeliveryScope == [][GroupDeliveryScopeAct]_vars


\* In the step the handler of connection c's message returned the error e to
\* the read pump: the pump enqueued the error envelope or, with no room for
\* it, ended.
ErrorReturned(c, e) ==
    /\ rpc'[c] \notin {"handle", "bsend"}
    /\ \/ Added(c) = <<ErrorMsg(e)>>
       \/ Added(c) = <<>> /\ rpc'[c] \in {"done", "sendnil", "senderr"}

\* The step hands a global message to the broadcast queue.
GlobalBroadcastStep ==
    /\ Len(broadcast') = Len(broadcast) + 1
    /\ Last(broadcast').type = "global_message"

\* C25: a global message is persisted before it is broadcast. A
\* global_message enters the broadcast queue only as the envelope of a row
\* already in the messages table; a frame with empty content is answered
\* with an error, saves nothing and broadcasts nothing; a frame with content
\* from any registered sender, member or friend of no one, is either saved
\* and then handed to the broadcast queue, or, when the save fails, answered
\* with an error with nothing saved and nothing broadcast.
PersistBeforeBroadcastAct ==
    /\ GlobalBroadcastStep
          => \E k \in DOMAIN dbMessages :
                Last(broadcast') = Payload("global_message", dbMessages[k])
    /\ \A c \in Conns :
          (/\ rpc[c] = "handle"
           /\ cur[c].type = "global_message"
           /\ clients[user[c]] # NoClient
           /\ panic' = panic
           /\ rpc'[c] # "handle" \/ cur'[c] # cur[c])
             => /\ broadcast' = broadcast
                /\ IF cur[c].body = ""
                   THEN /\ dbMessages' = dbMessages
                        /\ ErrorReturned(c, "empty message content")
                   ELSE \/ /\ dbMessages' = Append(dbMessages,
                                  SavedRow(user[c], None, cur[c].body))
                           /\ rpc'[c] = "bsend"
                           /\ cur'[c] = Payload("global_message", Last(dbMessages'))
                        \/ /\ dbMessages' = dbMessages
                           /\ ErrorReturned(c, "failed to save message")

PersistBeforeBroadcast == [][PersistBeforeBroadcastAct]_vars

\* A global message was saved and its envelope is on the broadcast queue,
\* one frame with empty content was answered with the error and one failed
\* save with its error.
PersistBeforeBroadcastWitness ==
    /\ dbMessages # <<>>
    /\ broadcast # <<>>
    /\ Last(broadcast) = Payload("global_message", Last(dbMessages))
    /\ \E c \in Conns : \E i \in DOMAIN enq[c] :
          enq[c][i] = ErrorMsg("empty message content")
    /\ \E c \in Conns : \E i \in DOMAIN enq[c] :
          enq[c][i] = ErrorMsg("failed to save message")


\* The step in which the router returns from a ping decoded by the read
\* pump of connection c.
PingStep(c) ==
    /\ rpc[c] = "handle"
    /\ cur[c].type = "ping"
    /\ rpc'[c] # "handle"
    /\ panic' = panic

\* C26: a ping is answered on the sender's own mailbox. For every inbound
\* ping exactly one pong is enqueued, onto the mailbox of the Session whose
\* read pump decoded the ping, also when another Session of the same user
\* has been registered since; when that mailbox is full an error is
\* returned instead; no other mailbox and nothing in the store changes.
PingOwnMailboxAct ==
    \A c \in Conns :
        PingStep(c) =>
            /\ \A d \in Conns \ {c} : Added(d) = <<>> /\ mailbox'[d] = mailbox[d]
            /\ IF HasRoom(ChanState, c)
               THEN Added(c) = <<PongMsg>> /\ rpc'[c] = "read"
               ELSE ErrorReturned(c, "failed to send pong: channel full")
            /\ UNCHANGED <<dbStatus, dbMessages, dbFriends, groupMembers,
                           groupCreator, groupAdmins>>

PingOwnMailbox == [][PingOwnMailboxAct]_vars


\* The step in which the router returns from a message of connection c
\* whose type it does not dispatch.
UnknownTypeStep(c) ==
    /\ rpc[c] = "handle"
    /\ cur[c].type \notin Dispatched
    /\ rpc'[c] # "handle"
    /\ panic' = panic

\* C27: unrecognized message type. A message of a type the router does not
\* dispatch is answered with one error envelope on the sending Session's
\* mailbox and nothing else: no other mailbox, nothing in the store and no
\* registry entry changes, and the connection stays open, its read pump
\* going on to the next message.
UnknownTypeAct ==
    \A c \in Conns :
        UnknownTypeStep(c) =>
            /\ Len(Added(c)) = 1
            /\ Added(c)[1].type = "error"
            /\ \A d \in Conns \ {c} : Added(d) = <<>> /\ mailbox'[d] = mailbox[d]
            /\ UNCHANGED <<dbStatus, dbMessages, dbFriends, groupMembers,
                           groupCreator, groupAdmins, clients, connOpen>>
            /\ rpc'[c] = "read"

UnknownTypeNotFatal == [][UnknownTypeAct]_vars


\* The friend_request envelopes the server has issued to connection c: the
\* confirmations enqueued by the friend-request handler and the pending
\* requests pushed at login.
IssuedRequests(c) ==
    {enq[c][i] : i \in {j \in DOMAIN enq[c] : enq[c][j].type = "friend_request"}}
    \cup {written[c][i] :
             i \in {j \in DOMAIN written[c] : written[c][j].type = "friend_request"}}

\* C28: friend-request identifier round trip. Every identifier
\* "fr-<requester>-<target>-<unix time>" the server has synthesized, for
\* user ids as the store issues them, is resolved by GetFriendRequestUsers
\* to exactly that requester and that target.
RequestIdRoundTrip ==
    \A c \in Conns : \A m \in IssuedRequests(c) :
        GetFriendRequestUsers(m.rid) = [err |-> "", from |-> m.from, to |-> m.to]


\* The statuses the friends table holds for the unordered pair of a and b.
PairStatuses(a, b) == {dbFriends[<<a, b>>], dbFriends[<<b, a>>]}

\* C29: friend request is idempotent at the store. On every table the store
\* can hold, CreateFriendRequest(a, b) creates a pending relationship when
\* the pair has none, re-opens a rejected one to pending, leaves the table
\* as it is when the pair is already pending or accepted, whichever of the
\* two users sent the first request, and issued a second time changes
\* nothing more.
FriendRequestIdempotent ==
    \A a \in Users, b \in Users :
        LET once  == CreateFriendRequest(dbFriends, a, b)
            twice == CreateFriendRequest(once, a, b)
            active == PairStatuses(a, b) \cap {"pending", "accepted"}
        IN  /\ active # {} => once = dbFriends
            /\ PairStatuses(a, b) = {"none"}
                   => once = [dbFriends EXCEPT ![<<a, b>>] = "pending"]
            /\ (active = {} /\ "rejected" \in PairStatuses(a, b))
                   => /\ "pending" \in {once[<<a, b>>], once[<<b, a>>]}
                      /\ \A p \in DOMAIN dbFriends :
                             p \notin {<<a, b>>, <<b, a>>}
                                 => once[p] = dbFriends[p]
            /\ twice = once


\* The call HandleFriendResponse(u, rid, accept) returned an error, left the
\* friends table as it is and sent nothing to any mailbox.
Refused(u, rid, accept) ==
    LET r == HandleFriendResponse(u, rid, accept)
    IN r.err # "" /\ r.tbl = dbFriends /\ r.ch = ChanState

\* C30: friend response authorization. In every state, a response to the
\* pending request of from to another user to, sent by any user other than
\* to (the requester included), is rejected as unauthorized, with the
\* relationship's status unchanged and nothing enqueued onto any mailbox;
\* a response to a request that is not pending returns an error and changes
\* nothing.
FriendResponseAuthorization ==
    \A from \in Users, to \in Users, u \in Users, accept \in BOOLEAN :
        LET rid == RequestID(from, to)
        IN /\ (from # to /\ dbFriends[<<from, to>>] = "pending" /\ u # to)
                 => /\ HandleFriendResponse(u, rid, accept).err
                           = "unauthorized to respond to this friend request"
                    /\ Refused(u, rid, accept)
           /\ PendingRows(dbFriends, from, to) = {} => Refused(u, rid, accept)


\* The place of an initial-data envelope in the order of sendInitialData
\* (0: not an initial-data envelope).
PushRank(m) ==
    IF m.type = "message_history" THEN 1
    ELSE IF m.type = "friend_list" THEN 2
    ELSE IF m.type = "friend_request" THEN 3
    ELSE 0

\* C31: handshake write order. On every connection whose handshake
\* succeeded, the first envelope written to the transport is the successful
\* AuthResponse for the user; the writes of the handshake that follow are
\* the message history, the friend list and the pending friend requests, in
\* that order; nothing else is written before the pumps start, and what is
\* written after the handshake's writes was taken from the Session's mailbox.
HandshakeWriteOrder ==
    \A c \in Conns :
        user[c] # NoUser =>
            /\ 1 <= hlen[c] /\ hlen[c] <= Len(written[c])
            /\ written[c][1] = Msg("auth_response", user[c], None, "success")
            /\ \A i \in 2..hlen[c] : PushRank(written[c][i]) > 0
            /\ \A i \in 2..hlen[c] : \A j \in (i+1)..hlen[c] :
                  /\ PushRank(written[c][i]) <= PushRank(written[c][j])
                  /\ PushRank(written[c][i]) = PushRank(written[c][j])
                        => PushRank(written[c][i]) = 3
            /\ wpc[c] = "off" => Len(written[c]) = hlen[c]
            /\ \A i \in (hlen[c]+1)..Len(written[c]) :
                  \E k \in DOMAIN enq[c] : enq[c][k] = written[c][i]

\* A handshake wrote the AuthResponse, the history, the friend list and a
\* pending request, and the write pump has since written an envelope of the
\* mailbox.
HandshakeWriteOrderWitness ==
    \E c \in Conns :
        /\ user[c] # NoUser
        /\ hlen[c] >= 4
        /\ Len(written[c]) > hlen[c]


\* The number of envelopes of rank k among the writes w.
PushCount(w, k) == Cardinality({i \in DOMAIN w : PushRank(w[i]) = k})

\* A handshake step of c that wrote the success AuthResponse goes on to the
\* announcement and the registration, and every initial push the transport
\* takes (the history, the friend list, each pending request) is written,
\* whichever other pushes failed.
InitialPushIndependenceAct ==
    \A c \in Conns :
        (/\ hpc[c] = "idle"
         /\ written'[c] # <<>>
         /\ written'[c][1].type = "auth_response")
            => LET n == Cardinality(GetPendingFriendRequests(user'[c]))
                   w == written'[c]
               IN /\ hpc'[c] = "announce"
                  /\ 1 \notin pushFail'[c] => PushCount(w, 1) = 1
                  /\ 2 \notin pushFail'[c] => PushCount(w, 2) = 1
                  /\ PushCount(w, 3)
                        = n - Cardinality(pushFail'[c] \cap (3..(n + 2)))

\* C32: initial-data pushes are independently fallible. After the success
\* AuthResponse has been written, a failure of any one initial push neither
\* fails the handshake nor keeps the remaining pushes from being made.
InitialPushIndependence == [][InitialPushIndependenceAct]_vars


\* What the broadcaster holds is the online announcement of a user.
OnlineUpdate(m) == m.type = "status_update" /\ m.body = "online"

\* The handshake's part of the announcement: a successful handshake of c
\* goes on to the announcement, which places exactly one
\* status_update{user, online} on the broadcast queue before the Session is
\* registered; a failed handshake queues nothing.
HandshakeAnnouncesAct ==
    \A c \in Conns :
        /\ (hpc[c] = "idle" /\ user'[c] # NoUser) => hpc'[c] = "announce"
        /\ (hpc[c] = "announce" /\ hpc'[c] # "announce")
              => /\ broadcast' = Append(broadcast,
                                        StatusUpdate(user[c], "online"))
                 /\ hpc'[c] = "register"
        /\ (hpc[c] = "idle" /\ hpc'[c] = "done") => broadcast' = broadcast

\* The step is the fan-out of an online announcement.
OnlineFanoutStep == bpc = "rlock" /\ bpc' = "recv" /\ OnlineUpdate(bmsg)

\* The announcement is enqueued onto the mailbox of every Session registered
\* when it is fanned out.
OnlineAnnouncementAct ==
    /\ HandshakeAnnouncesAct
    /\ OnlineFanoutStep
          => \A d \in Conns :
                InRegistry(d) => enq'[d] = Append(enq[d], bmsg)

\* C33: online announcement. After every successful handshake one
\* status_update{userID, online} is placed on the shared broadcast queue and
\* is enqueued onto the mailboxes of all Sessions that are registered when it
\* is fanned out; no status_update is queued for a handshake that fails.
OnlineAnnouncement == [][OnlineAnnouncementAct]_vars


\* The announcement is enqueued onto the mailbox of every registered Session
\* whose mailbox has room; a registered Session whose mailbox is full gets
\* nothing and is closed and removed.
OnlineAnnouncementToRoomAct ==
    /\ HandshakeAnnouncesAct
    /\ OnlineFanoutStep
          => \A d \in Conns :
                InRegistry(d) =>
                    IF Len(mailbox[d]) < MailboxCap
                    THEN enq'[d] = Append(enq[d], bmsg)
                    ELSE enq'[d] = enq[d] /\ closed'[d] /\ ~InRegistry(d)'

\* C33 as amended: the announcement reaches the registered Sessions whose
\* mailboxes are not full when it is fanned out.
OnlineAnnouncementToRoom == [][OnlineAnnouncementToRoomAct]_vars

\* A Session has been enqueued the online announcement of another user, and
\* a Session has been closed with its mailbox full.
OnlineAnnouncementWitness ==
    /\ \E d \in Conns : \E i \in DOMAIN enq[d] :
          OnlineUpdate(enq[d][i]) /\ enq[d][i].from # user[d]
    /\ \E d \in Conns : closed[d] /\ Len(mailbox[d]) = MailboxCap


\* The broadcasts made by the step.
NewlyEmitted == SubSeq(emitted', Len(emitted) + 1, Len(emitted'))

\* The number of broadcasts of the step that are status_update{u, status}.
EmittedFor(u, status) ==
    Cardinality({i \in DOMAIN NewlyEmitted :
                    NewlyEmitted[i] = StatusUpdate(u, status)})

\* After a sweep every user who was online with a last activity older than
\* the idle threshold is away and one status_update{user, away} has been
\* broadcast for them; the other users are as before and nothing is
\* broadcast for them; the Sessions, the mailboxes, the registry and the
\* store are as before.
IdleDemotionAct ==
    CheckInactiveUsers =>
        /\ \A u \in Users :
              IF /\ userStatus[u] = "online"
                 /\ lastSeen[u] # -1
                 /\ now - lastSeen[u] > IdleThreshold
              THEN /\ userStatus'[u] = "away"
                   /\ EmittedFor(u, "away") = 1
              ELSE /\ userStatus'[u] = userStatus[u]
                   /\ \A status \in {"online", "away", "offline"} :
                         EmittedFor(u, status) = 0
        /\ \A i \in DOMAIN NewlyEmitted :
              \E u \in Users : NewlyEmitted[i] = StatusUpdate(u, "away")
        /\ lastSeen' = lastSeen
        /\ UNCHANGED <<clients, mailbox, closed, connOpen, enq, written,
                       hpc, rpc, wpc, user, dbStatus>>

\* C34: idle demotion. In each presence sweep every user whose status is
\* online and whose last activity is older than the idle threshold is set to
\* away and one status_update{userID, away} is broadcast for that user;
\* users who are not online or whose last activity is within the threshold
\* are unchanged, and no Session, mailbox or registry state is touched.
IdleDemotion == [][IdleDemotionAct]_vars

\* A sweep has demoted u1, idle since tick 0, while u2, active at the
\* current tick, is still online.
IdleDemotionWitness ==
    /\ now > IdleThreshold
    /\ userStatus["u1"] = "away" /\ lastSeen["u1"] = 0
    /\ userStatus["u2"] = "online" /\ lastSeen["u2"] = now
    /\ emitted = <<StatusUpdate("u1", "online"), StatusUpdate("u2", "online"),
                   StatusUpdate("u1", "away")>>


\* The presence a stored status stands for: a user without an entry is
\* offline.
Presence(status) == IF status = None THEN "offline" ELSE status

\* The moves of the presence state machine: offline -> online -> away ->
\* online -> offline, a Session being torn down in whichever presence the
\* user has.
PresenceMoves ==
    {<<"offline", "online">>, <<"online", "away">>, <<"away", "online">>,
     <<"online", "offline">>, <<"away", "offline">>}

\* Every change of a user's presence is a move of the state machine, and a
\* user the monitor holds as away whose activity is refreshed by
\* UpdateLastSeen is online afterwards, with a status_update{user, online}
\* broadcast.
PresenceMachineAct ==
    \A u \in Users :
        /\ Presence(userStatus'[u]) # Presence(userStatus[u])
              => <<Presence(userStatus[u]), Presence(userStatus'[u])>>
                    \in PresenceMoves
        /\ (UpdateLastSeen(u) /\ userStatus[u] = "away")
              => /\ userStatus'[u] = "online"
                 /\ EmittedFor(u, "online") = 1

\* C35: presence state machine. A user's presence moves only along
\* offline -> online -> away -> online -> offline; for a user the presence
\* monitor holds as away, any fresh activity (UpdateLastSeen) returns the
\* user to online and emits a status broadcast.
PresenceStateMachine == [][PresenceMachineAct]_vars


\* The places of the list ns whose timestamp lies within the recency
\* window.
InWindow(ns) == {i \in DOMAIN ns : ns[i].ts > now - RecencyWindow}

\* The list new holds exactly the notifications of old that lie within the
\* window, each once, in the order of old and as they were.
IsPruningOf(new, old) ==
    /\ Len(new) = Cardinality(InWindow(old))
    /\ \E f \in [DOMAIN new -> InWindow(old)] :
          /\ \A j, k \in DOMAIN new : j < k => f[j] < f[k]
          /\ \A k \in DOMAIN new : new[k] = old[f[k]]

\* A call of CleanOldNotifications leaves every user the notifications of
\* before that lie within the window, in order, read flags included; a call
\* of AddNotification appends one unread notification of the given type,
\* stamped with the current time, to the user's list and leaves every other
\* user's list as it is.
NotificationPruningAct ==
    /\ CleanOldNotifications
          => \A u \in Users : IsPruningOf(notifications'[u], notifications[u])
    /\ \A u \in Users, type \in NotifTypes :
          AddNotification(u, type)
              => /\ notifications'[u]
                       = Append(notifications[u],
                                [type |-> type, user |-> u, ts |-> now,
                                 read |-> FALSE])
                 /\ \A v \in Users \ {u} :
                       notifications'[v] = notifications[v]

\* C36: notification pruning. After CleanOldNotifications, for every user
\* the stored notifications are exactly those stored before the call whose
\* timestamp lies within the recency window, in their original order and
\* with their read flags unchanged; AddNotification appends one unread
\* notification for the given user and changes no other user's
\* notifications.
NotificationPruning == [][NotificationPruningAct]_vars

\* A call has pruned a notification and a user still holds an older
\* notification that was read and one that was not.
NotificationPruningWitness ==
    /\ pruned > 0
    /\ \E u \in Users :
          /\ Len(notifications[u]) = 2
          /\ notifications[u][1].read /\ ~notifications[u][2].read
          /\ notifications[u][1].ts < now


\* A handshake or a teardown is in progress for user u: a connection has
\* authenticated as u and is not registered yet, or the deferred cleanup of
\* a Session of u has begun and not returned.
InTransition(u) ==
    \E c \in Conns :
        user[c] = u /\ hpc[c] \in {"announce", "register", "logout"}

\* C37: store presence agrees with the registry. In every state in which no
\* handshake and no teardown is in progress for a user, the store marks the
\* user online exactly when the registry holds a Session for the user.
StorePresenceAgrees ==
    \A u \in Users :
        ~InTransition(u) => (dbStatus[u] = "online" <=> clients[u] # NoClient)

\* An envelope that reaches mailboxes through the broadcast queue.
IsBroadcastEnvelope(m) == m.type \in {"status_update", "global_message"}

\* The broadcast envelopes of a mailbox history, in order.
Broadcasts(q) == SelectSeq(q, IsBroadcastEnvelope)

\* x was enqueued before y in the history q.
Before(q, x, y) == \E i, j \in DOMAIN q : i < j /\ q[i] = x /\ q[j] = y

\* Any two Sessions that both hold two broadcast envelopes hold them in the
\* same order, and none holds an envelope twice.
SameBroadcastOrder ==
    \A c, d \in Conns :
        LET bc == Broadcasts(enq[c])
            bd == Broadcasts(enq[d])
        IN /\ \A i, j \in DOMAIN bc : bc[i] = bc[j] => i = j
           /\ \A i, j \in DOMAIN bc :
                 (i < j /\ (\E k \in DOMAIN bd : bd[k] = bc[j]))
                     => ~Before(bd, bc[j], bc[i])

\* C38: broadcasts are totally ordered. The broadcaster holds one dequeued
\* message at a time, taken from the head of the broadcast queue; broadcast
\* envelopes enter mailboxes only in the fan-out of that message, which puts
\* it behind everything enqueued before; so every Session holds the messages
\* it has in dequeue order, and any two Sessions hold them in one and the
\* same relative order.
BroadcastTotalOrderAct ==
    /\ (bmsg' # bmsg /\ bmsg' # NoMsg)
          => /\ bmsg = NoMsg /\ broadcast # <<>>
             /\ bmsg' = Head(broadcast) /\ broadcast' = Tail(broadcast)
    /\ \A c \in Conns :
          Broadcasts(enq'[c]) # Broadcasts(enq[c])
              => /\ FanoutStep /\ bmsg # NoMsg
                 /\ enq'[c] = Append(enq[c], bmsg)
    /\ SameBroadcastOrder'

BroadcastTotalOrder == [][BroadcastTotalOrderAct]_vars

\* C38 witness: two broadcasts (each a stored global message or a status
\* update) have been fanned out to both Sessions, and both hold them in the
\* same order behind their other envelopes.
BroadcastTotalOrderWitness ==
    /\ bpc = "recv"
    /\ Len(Broadcasts(enq["c1"])) >= 2
    /\ Broadcasts(enq["c1"])[1].type # Broadcasts(enq["c1"])[2].type
    /\ \E i \in DOMAIN Broadcasts(enq["c2"]) :
          /\ i + 1 \in DOMAIN Broadcasts(enq["c2"])
          /\ Broadcasts(enq["c2"])[i] = Broadcasts(enq["c1"])[1]
          /\ Broadcasts(enq["c2"])[i + 1] = Broadcasts(enq["c1"])[2]

\* The number of error envelopes enqueued onto the mailbox of x in the step.
ErrorsAdded(x) == Len(SelectSeq(Added(x), LAMBDA m : m.type = "error"))

\* The message of connection c in the router is one a handler rejects: an
\* unknown type, a global message without content, a group message of a
\* non-member, or a friend request to an unknown user.
Rejects(c) ==
    /\ rpc[c] = "handle"
    /\ Sender(c) # NoClient
    /\ \/ cur[c].type \notin Dispatched
       \/ cur[c].type = "global_message" /\ cur[c].body = ""
       \/ cur[c].type = "group_message" /\ ~IsGroupMember(user[c], cur[c].to)
       \/ cur[c].type = "friend_request" /\ cur[c].to \notin Users

\* C39: one error envelope per rejected request. The step in which the
\* router returns from a rejected message enqueues exactly one error
\* envelope onto the mailbox of the sender's Session, raises no panic and
\* leaves the read pump reading.
OneErrorPerRejectionAct ==
    \A c \in Conns :
        (Rejects(c) /\ RouterStep(c))
            => /\ panic' = panic
               /\ ErrorsAdded(Sender(c)) = 1
               /\ rpc'[c] = "read"

OneErrorPerRejection == [][OneErrorPerRejectionAct]_vars

\* The call of r is inside its loop under h.mu.RLock().
InLoop(r) == ecall[r].pc = "loop"

\* No channel the EventHandler can still send on or close is closed, no
\* send or close has panicked, and a call inside its loop can always take
\* its next step, whatever the channels hold.
EventChannelsOpen ==
    /\ panic = "none"
    /\ \A i \in Subscribed : ~chanClosed[i]
    /\ \A r \in Readers :
          /\ \A i \in ecall[r].todo : ~chanClosed[i] /\ ENABLED SelectSend(r, i)
          /\ (InLoop(r) /\ ecall[r].todo = {}) => ENABLED RUnlock(r)

\* A step of a call's loop visits one channel: a channel with room gets the
\* message, a full channel is left as it is, every other channel is left as
\* it is, and the call goes on.
DropWhenFullAct ==
    \A r \in Readers :
        (InLoop(r) /\ ecall'[r] # ecall[r] /\ InLoop(r)')
            => \E i \in ecall[r].todo :
                  /\ ecall'[r].todo = ecall[r].todo \ {i}
                  /\ chanBuf'[i] = IF Len(chanBuf[i]) < SubCap
                                   THEN Append(chanBuf[i], ecall[r].msg)
                                   ELSE chanBuf[i]
                  /\ \A j \in Chans \ {i} : chanBuf'[j] = chanBuf[j]

\* C40: subscriber channels are used safely. Under every interleaving of
\* Subscribe, Unsubscribe, Broadcast and NotifyUser the EventHandler never
\* sends on a closed channel and never closes a channel twice, and a send to
\* a full channel does not block: the message is dropped for that subscriber
\* only.
EventChannelSafety == []EventChannelsOpen /\ [][DropWhenFullAct]_vars

\* C40 witness: a channel has been closed by Unsubscribe and both callers are
\* inside the EventHandler at once; one of them has been through a
\* subscribed channel that is full, the other has still to visit it.
EventChannelSafetyWitness ==
    /\ \E i \in Chans : chanClosed[i]
    /\ Len(emitted) >= 2
    /\ \A r \in Readers : InLoop(r)
    /\ \E i \in Subscribed :
          /\ Len(chanBuf[i]) = SubCap
          /\ i \notin ecall["r1"].todo
          /\ i \in ecall["r2"].todo

====
